---------------------------- MODULE Spec2Model ----------------------------
(***************************************************************************)
(* A model of scripts/build.py: the header indexer of eos-sdk-json.        *)
(*                                                                         *)
(* Text is modelled as TLA+ strings; a line of a file is the line's text   *)
(* with its line terminator, as readlines() returns it.  Python's string   *)
(* methods and the regular expressions of the script are operators over    *)
(* these strings.  A cursor i is Python's: the index of the next line,     *)
(* counted from 0.                                                         *)
(*                                                                         *)
(* SpecOrder    build_file_read_order, one action per phase / loop pass    *)
(* Spec         index_sdk_directory on directories of declarations          *)
(* SpecFaults   index_sdk_directory on directories with malformed input     *)
(* SpecEnum     index_sdk_directory on a directory with one enum block      *)
(***************************************************************************)
EXTENDS Integers, Sequences, FiniteSets, TLC

VARIABLES
    pc,              \* position of the run
    err,             \* "" or the kind of the exception that ended the run
    files_index,     \* build_header_file_index: <<[file, content]>>, in dict order
    files_priority,  \* build_file_read_order: <<[file, includes]>>, in dict order
    files_order,     \* build_file_read_order: the order built so far
    to_pop,          \* build_file_read_order: the files the last pass emitted
    fileno,          \* index_sdk_directory: the place in files_order of the file read
    cursor,          \* index_sdk_directory: i, the index of the next line of the file
    enum_last_index, \* index_sdk_directory: the running counter of the key entries
    last_file_comment, \* index_sdk_directory: the comment merged in this iteration
    defines,         \* the registry: one <<record>> per mapping, in insertion order
    functions,
    callbacks,
    structs,
    typedefs,
    enums,
    output           \* the document index_sdk_directory returns, a record without one before

order_vars == <<files_index, files_priority, files_order, to_pop>>

dispatch_vars == <<fileno, cursor, enum_last_index, last_file_comment,
                   defines, functions, callbacks, structs, typedefs, enums, output>>

vars == <<pc, err, order_vars, dispatch_vars>>

---------------------------------------------------------------------------
(* Bounds *)

\* number of header files of the input directory (orderer)
MaxFiles == 4
\* number of quoted include directives in the input directory (orderer)
MaxIncludes == 3

---------------------------------------------------------------------------
(* Python str methods *)

Range(s) == {s[k] : k \in 1..Len(s)}

\* s[a-1:b]: the characters of s from the a-th to the b-th, clipped to s
Slice(s, a, b) ==
    LET lo == IF a < 1 THEN 1 ELSE a
        hi == IF b > Len(s) THEN Len(s) ELSE b
    IN  IF lo > hi THEN SubSeq(s, 1, 0) ELSE SubSeq(s, lo, hi)

Char(s, k) == Slice(s, k, k)

StartsWith(s, p) == Len(s) >= Len(p) /\ Slice(s, 1, Len(p)) = p

EndsWith(s, p) == Len(s) >= Len(p) /\ Slice(s, Len(s) - Len(p) + 1, Len(s)) = p

\* characters str.strip() removes
Whitespace == {" ", "\t", "\n", "\r"}

\* index of the first character of s at or after k that is not in cls, Len(s)+1 if none
RECURSIVE SkipWhile(_, _, _)
SkipWhile(s, k, cls) ==
    IF k <= Len(s) /\ Char(s, k) \in cls THEN SkipWhile(s, k + 1, cls) ELSE k

\* index of the last character of s at or before k that is not in cls, 0 if none
RECURSIVE SkipBack(_, _, _)
SkipBack(s, k, cls) ==
    IF k >= 1 /\ Char(s, k) \in cls THEN SkipBack(s, k - 1, cls) ELSE k

LStripChars(s, cls) == Slice(s, SkipWhile(s, 1, cls), Len(s))

RStripChars(s, cls) == Slice(s, 1, SkipBack(s, Len(s), cls))

LStrip(s) == LStripChars(s, Whitespace)

RStrip(s) == RStripChars(s, Whitespace)

Strip(s) == LStrip(RStrip(s))

\* str.find, 1-based: the least index at which sub occurs in s, 0 if it does not
Find(s, sub) ==
    LET hits == {k \in 1..(Len(s) - Len(sub) + 1) : Slice(s, k, k + Len(sub) - 1) = sub}
    IN  IF hits = {} THEN 0 ELSE CHOOSE k \in hits : \A m \in hits : k <= m

Contains(s, sub) == Find(s, sub) # 0

Lower == "abcdefghijklmnopqrstuvwxyz"
Upper == "ABCDEFGHIJKLMNOPQRSTUVWXYZ"
Digits == "0123456789"

CharsOf(s) == {Char(s, k) : k \in 1..Len(s)}

\* the class [a-zA-Z0-9_]
WordChars == CharsOf(Lower) \cup CharsOf(Upper) \cup CharsOf(Digits) \cup {"_"}

AllIn(s, cls) == \A k \in 1..Len(s) : Char(s, k) \in cls

---------------------------------------------------------------------------
(* More of Python's str *)

\* the least index >= k at which sub occurs in s, 0 if there is none
RECURSIVE FindFrom(_, _, _)
FindFrom(s, sub, k) ==
    IF k + Len(sub) - 1 > Len(s) THEN 0
    ELSE IF Slice(s, k, k + Len(sub) - 1) = sub THEN k
    ELSE FindFrom(s, sub, k + 1)

\* the greatest index <= k at which sub occurs in s, 0 if there is none
RECURSIVE FindBack(_, _, _)
FindBack(s, sub, k) ==
    IF k < 1 THEN 0
    ELSE IF k + Len(sub) - 1 <= Len(s) /\ Slice(s, k, k + Len(sub) - 1) = sub THEN k
    ELSE FindBack(s, sub, k - 1)

\* s[k:], k a 1-based index
From(s, k) == IF k > Len(s) THEN "" ELSE Slice(s, k, Len(s))

\* s[:k-1], the text before the 1-based index k
Before(s, k) == IF k <= 1 THEN "" ELSE Slice(s, 1, k - 1)

\* s.split(sep): the pieces of s between the occurrences of sep
RECURSIVE Split(_, _)
Split(s, sep) ==
    LET k == FindFrom(s, sep, 1) IN
    IF k = 0 THEN <<s>>
    ELSE <<Before(s, k)>> \o Split(From(s, k + Len(sep)), sep)

\* the text a pattern ending in $ has to match: s without one final line terminator
Chomp(s) == IF EndsWith(s, "\n") THEN Before(s, Len(s)) ELSE s

\* a sub-parser that returns the cursor before the one it has reached
ParsedOneBack(i, def) == [ok |-> TRUE, err |-> "", i |-> i - 1, def |-> def]

\* the result of a sub-parser: the new cursor and the record, or the exception
Parsed(i, def) == [ok |-> TRUE, err |-> "", i |-> i, def |-> def]

Raised(kind, i) == [ok |-> FALSE, err |-> kind, i |-> i, def |-> <<>>]

\* None
None == "<None>"

\* lines[i], i a Python (0-based) index
At(lines, i) == lines[i + 1]

---------------------------------------------------------------------------
(* absorb_comment, absorb_directive *)

\* lines 46-53: the loop of absorb_comment
RECURSIVE AbsorbCommentLoop(_, _, _, _)
AbsorbCommentLoop(lines, i, line, last_comment) ==
    IF Contains(line, "*/") THEN [ok |-> TRUE, i |-> i, line |-> line, c |-> last_comment]
    ELSE LET line_content == LStrip(LStripChars(line, {"*"}))
             c == IF last_comment # "" THEN last_comment \o "\n" \o line_content
                  ELSE line_content
         IN  IF i >= Len(lines) THEN [ok |-> FALSE, i |-> i, line |-> line, c |-> c]
             ELSE AbsorbCommentLoop(lines, i + 1, Strip(At(lines, i)), c)

\* lines 34-59
absorb_comment(lines, i, line) ==
    LET \* lines 54-59, r what the loop left
        Closed(r) ==
            IF ~r.ok THEN Raised("IndexError", r.i)
            ELSE LET last == Strip(RStripChars(Before(r.line, FindFrom(r.line, "*/", 1)), {"*"}))
                     c == IF r.c # "" THEN r.c \o "\n" \o last ELSE last
                 IN  Parsed(r.i, RStripChars(c, {"\n"}))
    IN  IF ~StartsWith(LStrip(line), "/*") THEN Raised("AssertionError", i)
        ELSE Closed(AbsorbCommentLoop(lines, i, Strip(LStripChars(From(line, 3), {"*"})), ""))

\* lines 71-74: the loop of absorb_directive
RECURSIVE AbsorbDirectiveLoop(_, _, _, _)
AbsorbDirectiveLoop(lines, i, line, directive) ==
    IF ~EndsWith(RStripChars(line, {"\n"}), "\\")
    THEN [ok |-> TRUE, i |-> i, text |-> directive \o line]
    ELSE LET joined == IF EndsWith(line, "\\\n")
                       THEN Before(line, Len(line) - 1) \o "\n" ELSE line
         IN  IF i >= Len(lines) THEN [ok |-> FALSE, i |-> i, text |-> directive \o joined]
             ELSE AbsorbDirectiveLoop(lines, i + 1, At(lines, i), directive \o joined)

\* lines 61-75
absorb_directive(lines, i, line) ==
    LET r == AbsorbDirectiveLoop(lines, i, line, "")
    IN  IF r.ok THEN Parsed(r.i, r.text) ELSE Raised("IndexError", r.i)

---------------------------------------------------------------------------
(* explode_parameters, parse_define, parse_function, parse_callback *)

\* a parameter split at its first space instead of its last
ParameterAtFirstSpace(param) ==
    LET t == Strip(param)
        k == Find(t, " ")
    IN  [name |-> From(t, k + 1), type |-> Strip(Before(t, k))]

\* lines 86-89: one parameter
Parameter(param) ==
    LET t == Strip(param)
        k == FindBack(t, " ", Len(t))
    IN  [name |-> From(t, k + 1), type |-> Strip(Before(t, k))]

\* lines 77-89
explode_parameters(line) ==
    LET parts == Split(line, ",")
    IN  [k \in 1..Len(parts) |-> Parameter(parts[k])]

\* the separators of the #define pattern: [ \t(]
DefineSeps == {" ", "\t", "("}

\* line 94: the groups of the #define pattern, matched against the directive
DefineMatch(text) ==
    LET n == SkipWhile(text, 8, {" ", "\t"})
        q == SkipWhile(text, n, CharsOf(text) \ DefineSeps)
        run == SkipWhile(text, q, DefineSeps)
        \* the places of a parameter group "(c)" that a separator follows
        groups == {m \in q..(run - 1) :
                      /\ Char(text, m) = "("
                      /\ m + 3 <= Len(text)
                      /\ Char(text, m + 1) \notin {"(", ")"}
                      /\ Char(text, m + 2) = ")"
                      /\ Char(text, m + 3) \in DefineSeps}
        m == IF groups = {} THEN 0 ELSE CHOOSE x \in groups : \A y \in groups : y <= x
    IN  IF ~(StartsWith(text, "#define") /\ n > 8 /\ q > n /\ q <= Len(text))
        THEN [ok |-> FALSE, defname |-> "", params |-> None, expr |-> ""]
        ELSE IF m = 0
        THEN [ok |-> TRUE, defname |-> Slice(text, n, q - 1), params |-> None,
              expr |-> From(text, q + 1)]
        ELSE [ok |-> TRUE, defname |-> Slice(text, n, q - 1),
              params |-> Slice(text, m, m + 1), expr |-> From(text, m + 4)]

\* lines 91-105
parse_define(content, i, line, comment, file) ==
    LET \* lines 95-105, d the directive absorbed and definfo its match
        Define(d, definfo) ==
            IF ~definfo.ok THEN Raised("AssertionError", d.i)
            ELSE Parsed(d.i,
                     [comment |-> comment,
                      expression |-> Strip(definfo.expr),
                      name |-> Strip(definfo.defname),
                      parameters |-> IF definfo.params = None THEN None
                                     ELSE Strip(definfo.params),
                      source |-> file])
        Absorbed(d) == IF ~d.ok THEN d ELSE Define(d, DefineMatch(d.def))
    IN  Absorbed(absorb_directive(content, i, line))

\* line 110: the groups of the function pattern
FunctionMatch(raw) ==
    LET line == Chomp(raw)
        head == "EOS_DECLARE_FUNC("
        a == Len(head) + 1
        b == FindFrom(line, ")", a)
        c == SkipWhile(line, b + 1, {" "})
        d == SkipWhile(line, c, WordChars)
    IN  IF /\ StartsWith(line, head)
           /\ b > a
           /\ d > c
           /\ d <= Len(line) /\ Char(line, d) = "("
           /\ EndsWith(line, ");")
           /\ Len(line) - 2 >= d
           /\ ~Contains(line, "\n")
        THEN [ok |-> TRUE, retval |-> Slice(line, a, b - 1),
              funcname |-> Slice(line, c, d - 1),
              params |-> Slice(line, d + 1, Len(line) - 2)]
        ELSE [ok |-> FALSE, retval |-> "", funcname |-> "", params |-> ""]

\* lines 107-121
parse_function(content, i, line, comment, file) ==
    LET \* lines 111-121, funcinfo the match of the line
        Function(funcinfo) ==
            IF ~funcinfo.ok THEN Raised("AssertionError", i)
            ELSE LET params == Strip(funcinfo.params) IN
                 Parsed(i,
                     [comment |-> comment,
                      methodname_flat |-> Strip(funcinfo.funcname),
                      params |-> IF params \notin {"void", ""}
                                 THEN explode_parameters(params) ELSE <<>>,
                      returntype |-> Strip(funcinfo.retval),
                      source |-> file])
    IN  Function(FunctionMatch(line))

\* line 126: the groups of the callback pattern
CallbackMatch(raw) ==
    LET line == Chomp(raw)
        plain == "EOS_DECLARE_CALLBACK("
        retv == "EOS_DECLARE_CALLBACK_RETVALUE("
        isplain == StartsWith(line, plain)
        comma == FindFrom(line, ",", Len(retv) + 1)
        \* where the callback name starts
        c == IF isplain THEN Len(plain) + 1
             ELSE IF StartsWith(line, retv) /\ comma > Len(retv) + 1
                  THEN SkipWhile(line, comma + 1, {" "})
                  ELSE 0
        d == SkipWhile(line, c, WordChars)
        e == IF d <= Len(line) /\ Char(line, d) = "," THEN d + 1 ELSE d
    IN  IF /\ c > 0
           /\ d > c
           /\ EndsWith(line, ");")
           /\ Len(line) - 1 >= d
           /\ ~Contains(line, "\n")
        THEN [ok |-> TRUE,
              rettype |-> IF isplain THEN None ELSE Slice(line, Len(retv) + 1, comma - 1),
              cbname |-> Slice(line, c, d - 1),
              params |-> IF e > Len(line) - 2 THEN "" ELSE Slice(line, e, Len(line) - 2)]
        ELSE [ok |-> FALSE, rettype |-> None, cbname |-> "", params |-> ""]

\* lines 123-137
parse_callback(content, i, line, comment, file) ==
    LET \* lines 127-137, cbinfo the match of the line
        CallbackOf(cbinfo) ==
            IF ~cbinfo.ok THEN Raised("AssertionError", i)
            ELSE Parsed(i,
                     [callbackname |-> Strip(cbinfo.cbname),
                      comment |-> comment,
                      params |-> explode_parameters(Strip(cbinfo.params)),
                      returntype |-> IF cbinfo.rettype = None THEN "void"
                                     ELSE Strip(cbinfo.rettype),
                      source |-> file])
    IN  CallbackOf(CallbackMatch(line))

---------------------------------------------------------------------------
(* parse_struct_union, parse_struct *)

\* the search of line 188 without the colon and the space before the phrase
RecommendedValueAnywhere(comment) ==
    LET key == "Set this to "
        \* the first occurrence of the key that a value follows
        hits == {h \in 1..Len(comment) :
                    /\ Slice(comment, h, h + Len(key) - 1) = key
                    /\ h + Len(key) <= Len(comment)
                    /\ Char(comment, h + Len(key)) \notin {".", "\r", "\n"}}
        h == CHOOSE x \in hits : \A y \in hits : x <= y
        e == SkipWhile(comment, h + Len(key), CharsOf(comment) \ {".", "\r", "\n"})
    IN  IF hits = {} THEN None ELSE Slice(comment, h + Len(key), e - 1)

\* line 188 / 231: the value of ': Set this to <value>' in a comment, None if absent
RecommendedValue(comment) ==
    LET key == ": Set this to "
        \* the first occurrence of the key that a value follows
        hits == {h \in 1..Len(comment) :
                    /\ Slice(comment, h, h + Len(key) - 1) = key
                    /\ h + Len(key) <= Len(comment)
                    /\ Char(comment, h + Len(key)) \notin {".", "\r", "\n"}}
        h == CHOOSE x \in hits : \A y \in hits : x <= y
        e == SkipWhile(comment, h + Len(key), CharsOf(comment) \ {".", "\r", "\n"})
    IN  IF hits = {} THEN None ELSE Slice(comment, h + Len(key), e - 1)

\* an attribute record of lines 182-192 / 225-235: without the recommended_value
\* key when the comment recommends none
Attribute(comment, name, type) ==
    [comment |-> comment, name |-> name,
     recommended_value |-> RecommendedValue(comment), type |-> type]

\* line 180: '^(?P<type>.*) (?P<name>[a-zA-Z0-9_[\]]+);', matched at the start of the line
UnionDeclMatch(line) ==
    LET cls == WordChars \cup {"[", "]"}
        body == Before(line, IF FindFrom(line, "\n", 1) = 0 THEN Len(line) + 1
                              ELSE FindFrom(line, "\n", 1))
        hits == {k \in 1..Len(body) :
                    /\ Char(body, k) = " "
                    /\ SkipWhile(body, k + 1, cls) > k + 1
                    /\ SkipWhile(body, k + 1, cls) <= Len(body)
                    /\ Char(body, SkipWhile(body, k + 1, cls)) = ";"}
        k == CHOOSE x \in hits : \A y \in hits : y <= x
    IN  IF hits = {} THEN [ok |-> FALSE, type |-> "", name |-> ""]
        ELSE [ok |-> TRUE, type |-> Before(body, k),
              name |-> Slice(body, k + 1, SkipWhile(body, k + 1, cls) - 1)]

\* line 172: '^} (?P<name>[a-zA-Z_]+);$'
UnionEndMatch(raw) ==
    LET line == Chomp(raw)
        cls == CharsOf(Lower) \cup CharsOf(Upper) \cup {"_"}
        d == SkipWhile(line, 3, cls)
    IN  IF StartsWith(line, "} ") /\ d > 3 /\ d = Len(line) /\ Char(line, d) = ";"
        THEN [ok |-> TRUE, name |-> Slice(line, 3, d - 1)]
        ELSE [ok |-> FALSE, name |-> ""]

\* lines 158-164: the comments that follow one another, as the dispatcher and the
\* union parser merge them.  line is the line that starts the first comment, i the
\* cursor after it.  Returns the last comment, the line after it and the cursor.
RECURSIVE MergeComments(_, _, _)
MergeComments(content, i, line) ==
    LET \* a the comment absorbed, next the line after it
        Following(a, next) ==
            IF StartsWith(LStrip(next), "/*") THEN MergeComments(content, a.i + 1, next)
            ELSE [ok |-> TRUE, err |-> "", i |-> a.i + 1, line |-> next, c |-> a.def]
        Absorbed(a) ==
            IF ~a.ok THEN [ok |-> FALSE, err |-> a.err, i |-> a.i, line |-> "", c |-> ""]
            ELSE IF a.i >= Len(content)
            THEN [ok |-> TRUE, err |-> "", i |-> a.i + 1, line |-> line, c |-> a.def]
            ELSE Following(a, At(content, a.i))
    IN  Absorbed(absorb_comment(content, i, line))

\* lines 153-195: the loop of parse_struct_union
RECURSIVE UnionLoop(_, _, _, _)
UnionLoop(content, i, union, union_content) ==
    LET \* lines 172-176, m the line read and lineinfo its match
        End(m, lineinfo) ==
            IF ~lineinfo.ok THEN Raised("AssertionError", m.i)
            ELSE Parsed(m.i, [union EXCEPT !.name = lineinfo.name,
                                           !.type = "union\n" \o union_content \o "\n}"])
        \* lines 178-193
        Member(m, declinfo) ==
            IF ~declinfo.ok THEN Raised("AssertionError", m.i)
            ELSE UnionLoop(content, m.i,
                     [union EXCEPT !.unionitems =
                         Append(@, Attribute(m.c, Strip(declinfo.name), Strip(declinfo.type)))],
                     union_content \o "\n" \o m.line)
        \* lines 165-193, m the line left by the comments that precede it
        Line(m) ==
            IF ~m.ok THEN Raised(m.err, m.i)
            ELSE IF m.i > Len(content) THEN UnionLoop(content, m.i, union, union_content)
            ELSE IF m.line = "" THEN UnionLoop(content, m.i, union, union_content)
            ELSE IF StartsWith(m.line, "}") THEN End(m, UnionEndMatch(m.line))
            ELSE Member(m, UnionDeclMatch(m.line))
        \* lines 154-164, merged the comments that start at the line
        Read(first, merged) ==
            Line(IF StartsWith(LStrip(first), "/*") THEN merged
                 ELSE [ok |-> TRUE, err |-> "", i |-> i + 1, line |-> first, c |-> ""])
    IN  IF i >= Len(content) THEN Raised("Exception", i)
        ELSE Read(Strip(At(content, i)), MergeComments(content, i + 1, Strip(At(content, i))))

\* lines 139-195
parse_struct_union(content, i, line, comment) ==
    IF Strip(line) # "union" THEN Raised("AssertionError", i)
    ELSE IF i >= Len(content) THEN Raised("IndexError", i)
    ELSE IF Strip(At(content, i)) # "{" THEN Raised("AssertionError", i)
    ELSE UnionLoop(content, i + 1,
                   [comment |-> comment, name |-> "", type |-> "", unionitems |-> <<>>], "")

\* a block parser that does not look at end_found
EndNotChecked(end_found) == TRUE

\* lines 238 and 299: assert end_found
AssertEndFound(end_found) == end_found

\* line 199: '^EOS_STRUCT\((?P<name>[a-zA-Z0-9_]+), *\($'
StructMatch(raw) ==
    LET line == Chomp(raw)
        head == "EOS_STRUCT("
        a == Len(head) + 1
        b == SkipWhile(line, a, WordChars)
        c == SkipWhile(line, b + 1, {" "})
    IN  IF /\ StartsWith(line, head) /\ b > a
           /\ b <= Len(line) /\ Char(line, b) = ","
           /\ c = Len(line) /\ Char(line, c) = "("
        THEN [ok |-> TRUE, name |-> Slice(line, a, b - 1)]
        ELSE [ok |-> FALSE, name |-> ""]

\* where a field declaration that starts after the space at k ends: the index of its
\* ';', 0 if there is no declaration there
FieldEnd(line, k) ==
    LET d == SkipWhile(line, k + 1, WordChars)
        e == SkipWhile(line, d + 1, WordChars)
    IN  IF d = k + 1 \/ d > Len(line) THEN 0
        ELSE IF Char(line, d) = ";" THEN d
        ELSE IF /\ Char(line, d) = "[" /\ e > d + 1 /\ e + 1 <= Len(line)
                /\ Char(line, e) = "]" /\ Char(line, e + 1) = ";"
             THEN e + 1
        ELSE 0

\* line 220: the groups of the field pattern, matched at the start of the line
FieldMatch(line) ==
    LET \* the groups when the type ends at the space at k and the name at d - 1
        Groups(k, d) ==
            [ok |-> TRUE, type |-> Before(line, k), name |-> Slice(line, k + 1, d - 1),
             arrayinfo |-> Slice(line, d, FieldEnd(line, k) - 1)]
        Last(hits) == CHOOSE x \in hits : \A y \in hits : y <= x
        At_(k) == Groups(k, SkipWhile(line, k + 1, WordChars))
        Among(hits) ==
            IF hits = {} THEN [ok |-> FALSE, type |-> "", name |-> "", arrayinfo |-> ""]
            ELSE At_(Last(hits))
    IN  Among({k \in 1..Len(line) : Char(line, k) = " " /\ FieldEnd(line, k) # 0})

\* lines 205-237: the loop of parse_struct; the result holds end_found
RECURSIVE StructLoop(_, _, _, _, _)
StructLoop(content, i, comment, last_comment, struct_attrs) ==
    LET \* lines 214-217, u the union parsed
        Union(u) ==
            IF ~u.ok
            THEN [ok |-> FALSE, err |-> u.err, i |-> u.i, end_found |-> FALSE,
                  attrs |-> struct_attrs]
            ELSE StructLoop(content, u.i, comment, last_comment, Append(struct_attrs, u.def))
        \* lines 222-223, a the comment absorbed
        Comment(a) ==
            IF ~a.ok
            THEN [ok |-> FALSE, err |-> a.err, i |-> a.i, end_found |-> FALSE,
                  attrs |-> struct_attrs]
            ELSE StructLoop(content, a.i, comment, a.def, struct_attrs)
        \* lines 219-237
        Field(is_comment, declinfo, a) ==
            IF ~(is_comment \/ declinfo.ok)
            THEN [ok |-> FALSE, err |-> "AssertionError", i |-> i + 1,
                  end_found |-> FALSE, attrs |-> struct_attrs]
            ELSE IF is_comment THEN Comment(a)
            ELSE StructLoop(content, i + 1, comment, "",
                     Append(struct_attrs,
                            Attribute(last_comment, declinfo.name,
                                      declinfo.type \o declinfo.arrayinfo)))
        \* lines 208-237: u, declinfo and a are the union, the field and the comment
        \* the line starts
        Line(line, u, declinfo, a) ==
            IF line = "" THEN StructLoop(content, i + 1, comment, last_comment, struct_attrs)
            ELSE IF line = "));"
            THEN [ok |-> TRUE, err |-> "", i |-> i + 1, end_found |-> TRUE,
                  attrs |-> struct_attrs]
            ELSE IF line = "union" THEN Union(u)
            ELSE Field(StartsWith(line, "/*"), declinfo, a)
        line == Strip(At(content, i))
    IN  IF i >= Len(content)
        THEN [ok |-> TRUE, err |-> "", i |-> i, end_found |-> FALSE, attrs |-> struct_attrs]
        ELSE Line(line, parse_struct_union(content, i + 1, line, comment),
                  FieldMatch(line), absorb_comment(content, i + 1, line))

\* lines 197-245
parse_struct(content, i, line, comment, file) ==
    LET \* lines 238-245, r what the loop left
        Struct(structinfo, r) ==
            IF ~r.ok THEN Raised(r.err, r.i)
            ELSE IF ~AssertEndFound(r.end_found) THEN Raised("AssertionError", r.i)
            ELSE Parsed(r.i, [comment |-> comment, fields |-> r.attrs, source |-> file,
                              struct |-> structinfo.name])
        Matched(structinfo, r) ==
            IF ~structinfo.ok THEN Raised("AssertionError", i) ELSE Struct(structinfo, r)
    IN  Matched(StructMatch(line), StructLoop(content, i, comment, "", <<>>))

---------------------------------------------------------------------------
(* int() and str() *)

DigitValue(c) == CHOOSE v \in 0..9 : Char(Digits, v + 1) = c

\* int(s) accepts s: decimal digits, after an optional sign, between optional
\* whitespace
IsInt(s) ==
    LET t == Strip(s)
        u == IF StartsWith(t, "-") \/ StartsWith(t, "+") THEN From(t, 2) ELSE t
    IN  u # "" /\ AllIn(u, CharsOf(Digits))

RECURSIVE DecimalValue(_)
DecimalValue(u) ==
    IF u = "" THEN 0
    ELSE 10 * DecimalValue(Before(u, Len(u))) + DigitValue(Char(u, Len(u)))

\* int(s), for an s that IsInt accepts
IntOf(s) ==
    LET t == Strip(s)
    IN  IF StartsWith(t, "-") THEN 0 - DecimalValue(From(t, 2))
        ELSE IF StartsWith(t, "+") THEN DecimalValue(From(t, 2))
        ELSE DecimalValue(t)

\* str(n)
RECURSIVE StrOf(_)
StrOf(n) ==
    IF n < 0 THEN "-" \o StrOf(0 - n)
    ELSE IF n < 10 THEN Char(Digits, n + 1)
    ELSE StrOf(n \div 10) \o Char(Digits, (n % 10) + 1)

---------------------------------------------------------------------------
(* parse_result_value, parse_enum, parse_enum_start_end, parse_ui_enum *)

\* line 250: '^EOS_RESULT_VALUE(_LAST)?\((?P<name>[a-zA-Z0-9_]+), (?P<value>[x0-9A-F]+)\)$'
ResultValueMatch(raw) ==
    LET line == Chomp(raw)
        a == IF StartsWith(line, "EOS_RESULT_VALUE_LAST(") THEN 23
             ELSE IF StartsWith(line, "EOS_RESULT_VALUE(") THEN 18
             ELSE 0
        b == SkipWhile(line, a, WordChars)
        c == SkipWhile(line, b + 2, CharsOf("x0123456789ABCDEF"))
    IN  IF /\ a > 0 /\ b > a
           /\ Slice(line, b, b + 1) = ", "
           /\ c > b + 2
           /\ c = Len(line) /\ Char(line, c) = ")"
        THEN [ok |-> TRUE, name |-> Slice(line, a, b - 1), value |-> Slice(line, b + 2, c - 1)]
        ELSE [ok |-> FALSE, name |-> "", value |-> ""]

\* lines 247-258
parse_result_value(content, i, line, comment, file) ==
    LET \* lines 251-258, valinfo the match of the line
        ResultValue(valinfo) ==
            IF ~valinfo.ok THEN Raised("AssertionError", i)
            ELSE Parsed(i, [comment |-> comment, name |-> Strip(valinfo.name),
                            value |-> Strip(valinfo.value)])
    IN  ResultValue(ResultValueMatch(line))

\* line 262: '^EOS_ENUM\((?P<name>[a-zA-Z0-9_]+), *$'
EnumMatch(raw) ==
    LET line == Chomp(raw)
        b == SkipWhile(line, 10, WordChars)
    IN  IF /\ StartsWith(line, "EOS_ENUM(") /\ b > 10
           /\ b <= Len(line) /\ Char(line, b) = ","
           /\ SkipWhile(line, b + 1, {" "}) = Len(line) + 1
        THEN [ok |-> TRUE, name |-> Slice(line, 10, b - 1)]
        ELSE [ok |-> FALSE, name |-> ""]

\* line 280: '^(?P<name>[a-zA-Z0-9_]+)( *= *(?P<value>[x0-9a-f()< ]+))?,?$'
\* value is None when the entry has no literal
EnumDeclMatch(line) ==
    LET d == SkipWhile(line, 1, WordChars)
        rest == From(line, d)
        eq == SkipWhile(line, d, {" "})
        tail == From(line, eq + 1)
        body == IF EndsWith(tail, ",") THEN Before(tail, Len(tail)) ELSE tail
        lead == SkipWhile(body, 1, {" "})
    IN  IF d = 1 THEN [ok |-> FALSE, name |-> "", value |-> None]
        ELSE IF rest \in {"", ","} THEN [ok |-> TRUE, name |-> Before(line, d), value |-> None]
        ELSE IF /\ eq <= Len(line) /\ Char(line, eq) = "="
                /\ body # "" /\ AllIn(body, CharsOf("x0123456789abcdef()< "))
        THEN [ok |-> TRUE, name |-> Before(line, d),
              value |-> IF lead > Len(body) THEN " " ELSE From(body, lead)]
        ELSE [ok |-> FALSE, name |-> "", value |-> None]

\* the value last_enum_value starts with (line 267)
FirstEnumValue == "-1"

\* an entry without a literal that repeats the value before it
NoIncrement(n) == n

\* an increment of one enum entry
SuccessorOf(n) == n + 1

\* lines 286-289: the value of an entry, and with it the new last_enum_value
EnumValue(declinfo, last_enum_value) ==
    IF declinfo.value # None THEN declinfo.value
    ELSE StrOf(SuccessorOf(IntOf(last_enum_value)))

HasName(records, key, name) == \E k \in 1..Len(records) : records[k][key] = name

\* lines 270-298: the loop of parse_enum; the result holds end_found
RECURSIVE EnumLoop(_, _, _, _, _)
EnumLoop(content, i, last_enum_value, last_comment, enum_attrs) ==
    LET \* lines 282-283, a the comment absorbed
        Comment(a) ==
            IF ~a.ok
            THEN [ok |-> FALSE, err |-> a.err, i |-> a.i, end_found |-> FALSE,
                  attrs |-> enum_attrs]
            ELSE EnumLoop(content, a.i, last_enum_value, a.def, enum_attrs)
        \* lines 290-296, v the value of the entry
        Entry(declinfo, v) ==
            EnumLoop(content, i + 1, v, "",
                Append(enum_attrs,
                       [comment |-> last_comment, name |-> declinfo.name, value |-> v]))
        \* lines 279-298
        Decl(is_comment, declinfo, a) ==
            IF ~(is_comment \/ declinfo.ok)
            THEN [ok |-> FALSE, err |-> "AssertionError", i |-> i + 1,
                  end_found |-> FALSE, attrs |-> enum_attrs]
            ELSE IF is_comment THEN Comment(a)
            ELSE IF HasName(enum_attrs, "name", declinfo.name)
            THEN [ok |-> FALSE, err |-> "AssertionError", i |-> i + 1,
                  end_found |-> FALSE, attrs |-> enum_attrs]
            ELSE IF declinfo.value = None /\ ~IsInt(last_enum_value)
            THEN [ok |-> FALSE, err |-> "ValueError", i |-> i + 1,
                  end_found |-> FALSE, attrs |-> enum_attrs]
            ELSE Entry(declinfo, EnumValue(declinfo, last_enum_value))
        \* lines 273-298: declinfo and a are the entry and the comment the line starts
        Line(line, declinfo, a) ==
            IF line = "" THEN EnumLoop(content, i + 1, last_enum_value, last_comment, enum_attrs)
            ELSE IF line = ");"
            THEN [ok |-> TRUE, err |-> "", i |-> i + 1, end_found |-> TRUE,
                  attrs |-> enum_attrs]
            ELSE Decl(Contains(line, "/*"), declinfo, a)
        line == Strip(At(content, i))
    IN  IF i >= Len(content)
        THEN [ok |-> TRUE, err |-> "", i |-> i, end_found |-> FALSE, attrs |-> enum_attrs]
        ELSE Line(line, EnumDeclMatch(line), absorb_comment(content, i + 1, line))

\* lines 260-305
parse_enum(content, i, line, comment, file) ==
    LET \* lines 299-305, r what the loop left
        Enum(enuminfo, r) ==
            IF ~r.ok THEN Raised(r.err, r.i)
            ELSE IF ~AssertEndFound(r.end_found) THEN Raised("AssertionError", r.i)
            ELSE Parsed(r.i, [comment |-> comment, enumname |-> enuminfo.name,
                              source |-> file, values |-> r.attrs])
        Matched(enuminfo, r) ==
            IF ~enuminfo.ok THEN Raised("AssertionError", i) ELSE Enum(enuminfo, r)
    IN  Matched(EnumMatch(line), EnumLoop(content, i, FirstEnumValue, "", <<>>))

\* the enums the registry is seeded with (lines 463, 468, 473, and line 312)
BootstrapEnums == <<"EOS_EResult", "EOS_UI_EKeyCombination", "EOS_UI_EInputStateButtonFlags">>

\* line 310: '^EOS_ENUM_(START|END)\((?P<name>[a-zA-Z_]+)\);?$'
EnumStartEndMatch(raw) ==
    LET line == Chomp(raw)
        a == IF StartsWith(line, "EOS_ENUM_START(") THEN 16
             ELSE IF StartsWith(line, "EOS_ENUM_END(") THEN 14
             ELSE 0
        b == SkipWhile(line, a, CharsOf(Lower) \cup CharsOf(Upper) \cup {"_"})
    IN  IF /\ a > 0 /\ b > a
           /\ From(line, b) \in {")", ");"}
        THEN [ok |-> TRUE, name |-> Slice(line, a, b - 1)]
        ELSE [ok |-> FALSE, name |-> ""]

\* lines 307-317
parse_enum_start_end(content, i, line, comment, file) ==
    LET \* lines 311-317, enuminfo the match of the line
        StartEnd(enuminfo) ==
            IF ~enuminfo.ok THEN Raised("AssertionError", i)
            ELSE IF enuminfo.name \notin Range(BootstrapEnums) THEN Raised("AssertionError", i)
            ELSE Parsed(i, [comment |-> comment, name |-> enuminfo.name, source |-> file])
    IN  StartEnd(EnumStartEndMatch(line))

\* lines 322 and 341: '^(?P<macro>EOS_UI_KEY([_A-Z]+))\((?P<prefix>[a-zA-Z0-9_]+),
\* (?P<name>[a-zA-Z0-9_]+)(, (?P<value>.+))?\)$'; value is None when it is left out
UiMatch(raw) ==
    LET line == Chomp(raw)
        m == SkipWhile(line, 11, CharsOf(Upper) \cup {"_"})
        b == SkipWhile(line, m + 1, WordChars)
        c == SkipWhile(line, b + 2, WordChars)
    IN  IF /\ StartsWith(line, "EOS_UI_KEY") /\ m > 11
           /\ m <= Len(line) /\ Char(line, m) = "("
           /\ b > m + 1 /\ Slice(line, b, b + 1) = ", "
           /\ c > b + 2
           /\ EndsWith(line, ")")
           /\ ~Contains(line, "\n")
           /\ \/ c = Len(line)
              \/ Slice(line, c, c + 1) = ", " /\ c + 2 <= Len(line) - 1
        THEN [ok |-> TRUE, macro |-> Before(line, m),
              prefix |-> Slice(line, m + 1, b - 1),
              name |-> Slice(line, b + 2, c - 1),
              value |-> IF c = Len(line) THEN None ELSE Slice(line, c + 2, Len(line) - 1)]
        ELSE [ok |-> FALSE, macro |-> "", prefix |-> "", name |-> "", value |-> None]

\* the result of parse_ui_enum: the enum the entry belongs to and the new counter too
ParsedUi(i, parent, last_index, def) ==
    [ok |-> TRUE, err |-> "", i |-> i, parent |-> parent,
     enum_last_index |-> last_index, def |-> def]

RaisedUi(kind, i) ==
    [ok |-> FALSE, err |-> kind, i |-> i, parent |-> "", enum_last_index |-> 0, def |-> <<>>]

\* parse_ui_enum without the assignment of line 333: EOS_UI_KEY_ENTRY_FIRST
\* leaves the counter as it is
ParseUiEnumWithoutReset(i, line, comment, file, last_index) ==
    LET \* lines 328-339: macro the macro of a key entry, counted and value its
        \* enum_last_index and value once a missing value is numbered
        Key(valinfo, macro, auto, counted, value) ==
            IF auto /\ macro \notin {"EOS_UI_KEY_ENTRY", "EOS_UI_KEY_CONSTANT_LAST"}
            THEN RaisedUi("AssertionError", i)
            ELSE IF macro = "EOS_UI_KEY_ENTRY_FIRST" /\ ~IsInt(value)
            THEN RaisedUi("ValueError", i)
            ELSE ParsedUi(i, "EOS_UI_EKeyCombination",
                     counted,
                     [comment |-> comment,
                      name |-> Strip(valinfo.prefix) \o Strip(valinfo.name),
                      value |-> value])
        \* valinfo the match of the line
        Ui(valinfo) ==
            IF file = "eos_ui_keys.h"
            THEN IF ~valinfo.ok THEN RaisedUi("AssertionError", i)
                 ELSE Key(valinfo, Strip(valinfo.macro), valinfo.value = None,
                          IF valinfo.value = None THEN last_index + 1 ELSE last_index,
                          IF valinfo.value = None THEN StrOf(last_index + 1)
                          ELSE Strip(valinfo.value))
            ELSE IF file = "eos_ui_buttons.h"
            THEN IF ~valinfo.ok \/ valinfo.value = None THEN RaisedUi("AssertionError", i)
                 ELSE ParsedUi(i, "EOS_UI_EInputStateButtonFlags", last_index,
                          [comment |-> comment,
                           name |-> Strip(valinfo.prefix) \o Strip(valinfo.name),
                           value |-> Strip(valinfo.value)])
            ELSE RaisedUi("AssertionError", i)
    IN  Ui(UiMatch(line))

\* lines 319-353
parse_ui_enum(i, line, comment, file, last_index) ==
    LET \* lines 328-339: macro the macro of a key entry, counted and value its
        \* enum_last_index and value once a missing value is numbered
        Key(valinfo, macro, auto, counted, value) ==
            IF auto /\ macro \notin {"EOS_UI_KEY_ENTRY", "EOS_UI_KEY_CONSTANT_LAST"}
            THEN RaisedUi("AssertionError", i)
            ELSE IF macro = "EOS_UI_KEY_ENTRY_FIRST" /\ ~IsInt(value)
            THEN RaisedUi("ValueError", i)
            ELSE ParsedUi(i, "EOS_UI_EKeyCombination",
                     IF macro = "EOS_UI_KEY_ENTRY_FIRST" THEN IntOf(value) ELSE counted,
                     [comment |-> comment,
                      name |-> Strip(valinfo.prefix) \o Strip(valinfo.name),
                      value |-> value])
        \* valinfo the match of the line
        Ui(valinfo) ==
            IF file = "eos_ui_keys.h"
            THEN IF ~valinfo.ok THEN RaisedUi("AssertionError", i)
                 ELSE Key(valinfo, Strip(valinfo.macro), valinfo.value = None,
                          IF valinfo.value = None THEN last_index + 1 ELSE last_index,
                          IF valinfo.value = None THEN StrOf(last_index + 1)
                          ELSE Strip(valinfo.value))
            ELSE IF file = "eos_ui_buttons.h"
            THEN IF ~valinfo.ok \/ valinfo.value = None THEN RaisedUi("AssertionError", i)
                 ELSE ParsedUi(i, "EOS_UI_EInputStateButtonFlags", last_index,
                          [comment |-> comment,
                           name |-> Strip(valinfo.prefix) \o Strip(valinfo.name),
                           value |-> Strip(valinfo.value)])
            ELSE RaisedUi("AssertionError", i)
    IN  Ui(UiMatch(line))

---------------------------------------------------------------------------
(* parse_typedef, parse_skip_line *)

\* s.replace(old, new, 1)
ReplaceFirst(s, old, new) ==
    LET k == FindFrom(s, old, 1)
    IN  IF k = 0 THEN s ELSE Before(s, k) \o new \o From(s, k + Len(old))

\* s.replace(old, new)
RECURSIVE ReplaceAll(_, _, _)
ReplaceAll(s, old, new) ==
    LET k == FindFrom(s, old, 1)
    IN  IF k = 0 THEN s
        ELSE Before(s, k) \o new \o ReplaceAll(From(s, k + Len(old)), old, new)

\* where the name of a function-pointer signature that has its '*' at k ends:
\* the index of the ')' after the name, 0 if the text after the '*' is not
\* ' *name)(...)' up to the end of the signature
SignatureNameEnd(sig, k) ==
    LET c == SkipWhile(sig, k + 1, {" "})
        d == SkipWhile(sig, c, WordChars)
    IN  IF /\ d > c
           /\ Slice(sig, d, d + 1) = ")("
           /\ d + 2 <= Len(sig)
           /\ EndsWith(sig, ")")
        THEN d ELSE 0

\* '\(.*\* *(?P<name2>[a-zA-Z0-9_]+)\)\(.*\)' against the whole of sig
SignatureMatch(sig) ==
    LET \* the name that ends before the ')' at d
        Name(d) == [ok |-> TRUE, name2 |-> Slice(sig, SkipBack(sig, d - 1, WordChars) + 1, d - 1)]
        \* hits the places of a '*' that a name and the parameters follow: '.*' takes
        \* the last of them
        Among(hits) ==
            IF ~StartsWith(sig, "(") \/ hits = {} THEN [ok |-> FALSE, name2 |-> ""]
            ELSE Name(SignatureNameEnd(sig, CHOOSE x \in hits : \A y \in hits : y <= x))
    IN  Among({k \in 2..Len(sig) : Char(sig, k) = "*" /\ SignatureNameEnd(sig, k) # 0})

\* line 358: the groups of the typedef pattern; name is None for a function pointer,
\* signature is None for an alias
TypedefMatch(raw) ==
    LET line == Chomp(raw)
        extern == StartsWith(line, "EOS_EXTERN_C ")
        a == IF extern THEN 14 ELSE 1
        \* the text between 'typedef ' and the final ';'
        text == Slice(line, a + 8, Len(line) - 1)
        \* the groups when the type ends at the space at k: tail is the text after it
        \* and sig its match as a signature
        Groups(k, tail, sig) ==
            IF AllIn(tail, WordChars)
            THEN [ok |-> TRUE, extern |-> extern, type |-> Before(text, k), name |-> tail,
                  signature |-> None, name2 |-> None]
            ELSE [ok |-> TRUE, extern |-> extern, type |-> Before(text, k), name |-> None,
                  signature |-> tail, name2 |-> sig.name2]
        AtSpace(k) == Groups(k, From(text, k + 1), SignatureMatch(From(text, k + 1)))
        \* tail is a name, or a signature that sig matches
        Named(tail, sig) == (tail # "" /\ AllIn(tail, WordChars)) \/ sig.ok
        \* hits the spaces that a name or a signature follows: '.+' takes the last
        Among(hits) ==
            IF \/ Slice(line, a, a + 7) # "typedef "
               \/ ~EndsWith(line, ";")
               \/ Contains(line, "\n")
               \/ hits = {}
            THEN [ok |-> FALSE, extern |-> FALSE, type |-> "", name |-> None,
                  signature |-> None, name2 |-> None]
            ELSE AtSpace(CHOOSE x \in hits : \A y \in hits : y <= x)
    IN  Among({k \in 2..Len(text) :
                  /\ Char(text, k) = " "
                  /\ Named(From(text, k + 1), SignatureMatch(From(text, k + 1)))})

\* lines 366-370: the type text of a typedef
TypedefType(definfo, defname) ==
    IF definfo.signature = None THEN Strip(definfo.type)
    ELSE LET spaced == " " \o defname
             unnamed == ReplaceFirst(definfo.signature,
                            IF ~Contains(definfo.signature, spaced) THEN defname ELSE spaced,
                            "")
         IN  Strip(definfo.type)
             \o ReplaceAll(ReplaceAll(unnamed, "(EOS_CALL *", "(*"), "(EOS_MEMORY_CALL *", "(*")

\* lines 355-371
parse_typedef(content, i, line, comment, file) ==
    LET \* lines 359-371, definfo the match of the line
        Typedef(definfo) ==
            IF ~definfo.ok THEN Raised("AssertionError", i)
            ELSE LET defname == IF definfo.name # None THEN definfo.name
                                ELSE Strip(definfo.name2)
                 IN  Parsed(i, [comment |-> comment, extern |-> definfo.extern,
                                name |-> defname, source |-> file,
                                type |-> TypedefType(definfo, defname)])
    IN  Typedef(TypedefMatch(line))

\* lines 373-376
parse_skip_line(content, i, line, comment, file) == Parsed(i, None)

---------------------------------------------------------------------------
(* The registry of index_sdk_directory and its registrars *)

\* lines 463-477: the record of a bootstrap enum
BootstrapEnum(name, source) == [enumname |-> name, source |-> source, values |-> <<>>]

\* lines 457-478, before any file is read
InitRegistry ==
    /\ fileno = 0
    /\ cursor = 0
    /\ enum_last_index = 0
    /\ last_file_comment = ""
    /\ defines = <<>>
    /\ functions = <<>>
    /\ callbacks = <<>>
    /\ structs = <<>>
    /\ typedefs = <<>>
    /\ enums = <<BootstrapEnum(BootstrapEnums[1], "eos_common.h"),
                 BootstrapEnum(BootstrapEnums[2], "eos_ui_keys.h"),
                 BootstrapEnum(BootstrapEnums[3], "eos_ui_buttons.h")>>
    /\ output = [document |-> None]

\* the six mappings as one value
Registry ==
    [defines |-> defines, functions |-> functions, callbacks |-> callbacks,
     structs |-> structs, typedefs |-> typedefs, enums |-> enums]

\* what a registrar leaves: the mapping after the insertion, or the assertion it failed
Inserted(target) == [ok |-> TRUE, target |-> target]

Refused(target) == [ok |-> FALSE, target |-> target]

\* an insertion that does not look for the name in the mapping
InsertUnchecked(target, value_key, value) == Inserted(Append(target, value))

\* lines 436-439
assert_insert(target, value_key, value) ==
    IF HasName(target, value_key, value[value_key]) THEN Refused(target)
    ELSE Inserted(Append(target, value))

\* lines 16-26
DEFINES_IGNORE_LIST ==
    {"EOS_BUILD_PLATFORM_HEADER_BASE",
     "EOS_PREPROCESSOR_JOIN", "EOS_PREPROCESSOR_JOIN_INNER",
     "EOS_PREPROCESSOR_TO_STRING", "EOS_PREPROCESSOR_TO_STRING_INNER",
     "EOS_VERSION_STRING_AFTERCL", "EOS_VERSION_STRING", "EOS_VERSION_STRING_BASE",
     "EOS_VERSION_STRINGIFY", "EOS_VERSION_STRINGIFY_2",
     "EOS_RESULT_VALUE", "EOS_RESULT_VALUE_LAST", "EOS_UI_KEY_CONSTANT",
     "EOS_UI_KEY_MODIFIER", "EOS_UI_KEY_MODIFIER_LAST", "EOS_UI_KEY_ENTRY_FIRST",
     "EOS_UI_KEY_ENTRY", "EOS_UI_KEY_CONSTANT_LAST"}

\* lines 28-32
DIRECTIVES_IGNORE_LIST ==
    <<"#pragma", "#include", "#if", "#else", "#endif", "#ifndef", "#undef", "#error">>

\* line 443: the name assert_insert_if refuses
Tombstone == "EOS_AntiCheatClient_ReceiveMessageFromPeer"

\* an insertion that replaces the record of a name that is present
AssertInsertIfOverwriting(target, ignores, value_key, value) ==
    IF value[value_key] \in ignores THEN Inserted(target)
    ELSE IF HasName(target, value_key, value[value_key])
    THEN Inserted([k \in 1..Len(target) |->
                      IF target[k][value_key] = value[value_key] THEN value ELSE target[k]])
    ELSE Inserted(Append(target, value))

\* an insertion that never looks at the names to ignore
AssertInsertIfUnfiltered(target, ignores, value_key, value) ==
    IF value[value_key] = Tombstone THEN Refused(target)
    ELSE IF HasName(target, value_key, value[value_key]) THEN Refused(target)
    ELSE Inserted(Append(target, value))

\* lines 441-447
assert_insert_if(target, ignores, value_key, value) ==
    IF value[value_key] = Tombstone THEN Refused(target)
    ELSE IF value[value_key] \in ignores THEN Inserted(target)
    ELSE IF HasName(target, value_key, value[value_key]) THEN Refused(target)
    ELSE Inserted(Append(target, value))

\* the place of the enum called parent in the enums mapping
EnumIndex(mapping, parent) == CHOOSE k \in 1..Len(mapping) : mapping[k].enumname = parent

\* lines 533-534: the insertion of a key or button entry into its bootstrap enum
InsertUiValue(mapping, parent, definition) ==
    LET k == EnumIndex(mapping, parent) IN
    IF HasName(mapping[k].values, "name", definition.name) THEN Refused(mapping)
    ELSE Inserted([mapping EXCEPT ![k].values = Append(@, definition)])

\* lines 491-502: the table of leading markers, in the order they are tried
flags ==
    <<[linestart |-> <<"EOS_DECLARE_FUNC">>, callback |-> "parse_function",
       registrar |-> "functions"],
      [linestart |-> <<"EOS_DECLARE_CALLBACK">>, callback |-> "parse_callback",
       registrar |-> "callbacks"],
      [linestart |-> <<"EOS_STRUCT">>, callback |-> "parse_struct",
       registrar |-> "structs"],
      [linestart |-> <<"EOS_RESULT_VALUE">>, callback |-> "parse_result_value",
       registrar |-> "EOS_EResult"],
      [linestart |-> <<"EOS_ENUM_START", "EOS_ENUM_END">>, callback |-> "parse_enum_start_end",
       registrar |-> "noop"],
      [linestart |-> <<"EOS_ENUM_BOOLEAN_OPERATORS">>, callback |-> "parse_skip_line",
       registrar |-> "noop"],
      [linestart |-> <<"EOS_ENUM">>, callback |-> "parse_enum",
       registrar |-> "enums"],
      [linestart |-> <<"#define">>, callback |-> "parse_define",
       registrar |-> "defines"],
      [linestart |-> <<"typedef", "EOS_EXTERN_C">>, callback |-> "parse_typedef",
       registrar |-> "typedefs"],
      [linestart |-> DIRECTIVES_IGNORE_LIST, callback |-> "absorb_directive",
       registrar |-> "noop"]>>

\* the last entry of the table that line starts with, 0 if none
FlagOfLastMatch(line) ==
    LET hits == {k \in 1..Len(flags) :
                    \E n \in 1..Len(flags[k].linestart) : StartsWith(line, flags[k].linestart[n])}
    IN  IF hits = {} THEN 0 ELSE CHOOSE k \in hits : \A m \in hits : m <= k

\* line 526: the first entry of the table that line starts with, 0 if none
FlagOf(line) ==
    LET hits == {k \in 1..Len(flags) :
                    \E n \in 1..Len(flags[k].linestart) : StartsWith(line, flags[k].linestart[n])}
    IN  IF hits = {} THEN 0 ELSE CHOOSE k \in hits : \A m \in hits : k <= m

\* line 527: the call of the sub-parser of a table entry
Callback(name, content, i, line, comment, file) ==
    CASE name = "parse_function" -> parse_function(content, i, line, comment, file)
      [] name = "parse_callback" -> parse_callback(content, i, line, comment, file)
      [] name = "parse_struct" -> parse_struct(content, i, line, comment, file)
      [] name = "parse_result_value" -> parse_result_value(content, i, line, comment, file)
      [] name = "parse_enum_start_end" -> parse_enum_start_end(content, i, line, comment, file)
      [] name = "parse_skip_line" -> parse_skip_line(content, i, line, comment, file)
      [] name = "parse_enum" -> parse_enum(content, i, line, comment, file)
      [] name = "parse_define" -> parse_define(content, i, line, comment, file)
      [] name = "parse_typedef" -> parse_typedef(content, i, line, comment, file)
      [] name = "absorb_directive" -> absorb_directive(content, i, line)

\* line 528: the call of the registrar of a table entry on the registry reg
Register(reg, registrar, definition) ==
    LET done(r, field) == [ok |-> r.ok, reg |-> [reg EXCEPT ![field] = r.target]] IN
    CASE registrar = "functions" ->
            done(assert_insert(reg.functions, "methodname_flat", definition), "functions")
      [] registrar = "callbacks" ->
            done(assert_insert(reg.callbacks, "callbackname", definition), "callbacks")
      [] registrar = "structs" ->
            done(assert_insert(reg.structs, "struct", definition), "structs")
      [] registrar = "EOS_EResult" ->
            LET k == EnumIndex(reg.enums, "EOS_EResult")
                r == assert_insert(reg.enums[k].values, "name", definition)
            IN  [ok |-> r.ok, reg |-> [reg EXCEPT !.enums[k].values = r.target]]
      [] registrar = "enums" ->
            done(assert_insert(reg.enums, "enumname", definition), "enums")
      [] registrar = "defines" ->
            done(assert_insert_if(reg.defines, DEFINES_IGNORE_LIST, "name", definition),
                 "defines")
      [] registrar = "typedefs" ->
            done(assert_insert(reg.typedefs, "name", definition), "typedefs")
      \* noop (lines 449-451) leaves the registry as it is
      [] registrar = "noop" -> [ok |-> TRUE, reg |-> reg]

---------------------------------------------------------------------------
(* index_sdk_directory: one iteration of the loop over the lines of a file *)

\* the state an iteration leaves
Stepped(reg, i, last_index, comment) ==
    [ok |-> TRUE, err |-> "", i |-> i, enum_last_index |-> last_index,
     last_file_comment |-> comment, reg |-> reg]

\* the exception an iteration ends the run with; i is the cursor it had reached
Failed(kind, reg, i, last_index) ==
    [ok |-> FALSE, err |-> kind, i |-> i, enum_last_index |-> last_index,
     last_file_comment |-> "", reg |-> reg]

\* the line the iteration dispatches when the comment of the iteration before
\* is not reset (without line 512)
LineAtWithoutReset(content, i) ==
    LET line == At(content, i) IN
    IF StartsWith(LStrip(line), "/*") THEN MergeComments(content, i + 1, line)
    ELSE [ok |-> TRUE, err |-> "", i |-> i + 1, line |-> line, c |-> last_file_comment]

\* lines 510-523: the line the iteration dispatches, after the block comments
\* that precede it are merged; i > Len(content) when the file ends with them
LineAt(content, i) ==
    LET line == At(content, i) IN
    IF StartsWith(LStrip(line), "/*") THEN MergeComments(content, i + 1, line)
    ELSE [ok |-> TRUE, err |-> "", i |-> i + 1, line |-> line, c |-> ""]

\* a dispatcher without the final branch of line 539: every other line is passed over
SkipsEveryLine(line) == TRUE

\* line 536: a line comment or a blank line
IsSkipped(line) == StartsWith(LStrip(line), "//") \/ Strip(line) = ""

\* lines 510-541, for the cursor i < Len(content)
DispatchStep(reg, content, file, i, last_index) ==
    LET \* line 528, p the definition parsed and r the registry the registrar leaves
        Registered(m, p, r) ==
            IF ~r.ok THEN Failed("AssertionError", reg, p.i, last_index)
            ELSE Stepped(r.reg, p.i, last_index, m.c)
        \* lines 527-529, k the entry of flags the line starts with
        Flagged(m, k, p) ==
            IF ~p.ok THEN Failed(p.err, reg, p.i, last_index)
            ELSE Registered(m, p, Register(reg, flags[k].registrar, p.def))
        \* lines 533-534, r the values of the enum after the insertion
        Inserted_(m, p, r) ==
            IF ~r.ok THEN Failed("AssertionError", reg, p.i, p.enum_last_index)
            ELSE Stepped([reg EXCEPT !.enums = r.target], p.i, p.enum_last_index, m.c)
        \* lines 532-534, p the entry parsed
        Ui(m, p) ==
            IF ~p.ok THEN Failed(p.err, reg, p.i, last_index)
            ELSE Inserted_(m, p, InsertUiValue(reg.enums, p.parent, p.def))
        \* lines 525-541: p and u are what the sub-parser of the entry k, and
        \* parse_ui_enum, make of the line; each is read only on the branch that calls it
        Dispatch(m, k, p, u) ==
            IF k # 0 THEN Flagged(m, k, p)
            ELSE IF StartsWith(m.line, "EOS_UI_") THEN Ui(m, u)
            ELSE IF IsSkipped(m.line) THEN Stepped(reg, m.i, last_index, m.c)
            ELSE Failed("AssertionError", reg, m.i, last_index)
        \* lines 522-541, m the line left by the comments that precede it
        Line(m, k) ==
            IF ~m.ok THEN Failed(m.err, reg, m.i, last_index)
            ELSE IF m.i > Len(content) THEN Stepped(reg, m.i, last_index, m.c)
            ELSE Dispatch(m, k, Callback(flags[k].callback, content, m.i, m.line, m.c, file),
                          parse_ui_enum(m.i, m.line, m.c, file, last_index))
    IN  Line(LineAt(content, i), FlagOf(LineAt(content, i).line))

---------------------------------------------------------------------------
(* build_file_read_order *)

HeaderExts == <<".h", ".inl">>

IsHeader(file) == \E k \in 1..Len(HeaderExts) : EndsWith(file, HeaderExts[k])

\* the names of the files of the index, in dict order
Keys(index) == [k \in 1..Len(index) |-> index[k].file]

\* re.match('^#include +(?P<path>[^ ]+)$', line): the path, stripped; "" if no match
IncludePath(line) ==
    LET p == SkipWhile(line, 9, {" "})
        path == Slice(line, p, Len(line))
    IN  IF StartsWith(line, "#include ") /\ p <= Len(line) /\ ~Contains(path, " ")
        THEN Strip(path) ELSE ""

IsQuoted(path) == StartsWith(path, "\"") /\ EndsWith(path, "\"")

IsExternal(path) ==
    \/ StartsWith(path, "<") /\ EndsWith(path, ">")
    \/ path # "" /\ AllIn(path, WordChars)

\* lines 396-408 for one line: what the line adds to the includes of the file,
\* or the assertion it fails
ScanLine(index, file, line) ==
    IF ~StartsWith(line, "#include ") THEN [ok |-> TRUE, inc |-> {}]
    ELSE LET path == IncludePath(line) IN
         IF path = "" THEN [ok |-> FALSE, inc |-> {}]
         ELSE IF IsQuoted(path)
            THEN IF IsHeader(file)
                 THEN LET target == Slice(path, 2, Len(path) - 1) IN
                      IF target \in Range(Keys(index))
                      THEN [ok |-> TRUE, inc |-> {target}]
                      ELSE [ok |-> FALSE, inc |-> {}]
                 ELSE [ok |-> TRUE, inc |-> {}]
         ELSE IF IsExternal(path) THEN [ok |-> TRUE, inc |-> {}]
         ELSE [ok |-> FALSE, inc |-> {}]

\* lines 394-409: the include set of every file
ScanFile(index, k) ==
    LET content == index[k].content
        res == [n \in 1..Len(content) |-> ScanLine(index, index[k].file, content[n])]
    IN  [ok |-> \A n \in 1..Len(content) : res[n].ok,
         file |-> index[k].file,
         includes |-> UNION {res[n].inc : n \in 1..Len(content)}]

ScanIncludes ==
    /\ pc = "scan"
    /\ LET scanned == [k \in 1..Len(files_index) |-> ScanFile(files_index, k)] IN
       IF \A k \in 1..Len(scanned) : scanned[k].ok
       THEN /\ files_priority' =
                   [k \in 1..Len(scanned) |->
                       [file |-> scanned[k].file, includes |-> scanned[k].includes]]
            /\ pc' = "exclude"
            /\ err' = err
       ELSE /\ pc' = "fatal"
            /\ err' = "AssertionError"
            /\ files_priority' = files_priority
    /\ UNCHANGED <<files_index, files_order, to_pop>>
    /\ UNCHANGED dispatch_vars

\* an extension file no other file includes, whatever the extension of the other
IsExcludedUnlessIncluded(priority, f) ==
    /\ EndsWith(f, ".inl")
    /\ ~\E k \in 1..Len(priority) : priority[k].file # f /\ f \in priority[k].includes

\* line 414: an extension file no .h file includes
IsExcluded(priority, f) ==
    /\ EndsWith(f, ".inl")
    /\ ~\E k \in 1..Len(priority) :
            EndsWith(priority[k].file, ".h") /\ f \in priority[k].includes

\* lines 411-417
ExcludeInl ==
    /\ pc = "exclude"
    /\ files_priority' =
           SelectSeq(files_priority, LAMBDA e : ~IsExcluded(files_priority, e.file))
    /\ pc' = "sort"
    /\ UNCHANGED <<err, files_index, files_order, to_pop>>
    /\ UNCHANGED dispatch_vars

\* the set difference of line 424 with its operands swapped
UnresolvedSwapped(included_files, order) == Range(order) \ included_files

\* line 424: the includes of a file that are not emitted yet
Unresolved(included_files, order) == included_files \ Range(order)

\* lines 423-430: one pass over files_priority, from entry k on
RECURSIVE PassFrom(_, _, _, _)
PassFrom(priority, k, order, popped) ==
    IF k > Len(priority)
    THEN [priority |-> priority, order |-> order, popped |-> popped]
    ELSE LET new_v == Unresolved(priority[k].includes, order) IN
         IF Cardinality(new_v) = 0
         THEN PassFrom(priority, k + 1,
                       Append(order, priority[k].file), Append(popped, priority[k].file))
         ELSE IF Cardinality(new_v) # Cardinality(priority[k].includes)
         THEN PassFrom([priority EXCEPT ![k].includes = new_v], k + 1, order, popped)
         ELSE PassFrom(priority, k + 1, order, popped)

\* lines 421-432: one pass of the while loop; pc is "sort" before the first pass
\* and "while" at the loop test after a pass
SortPass ==
    /\ pc \in {"sort", "while"}
    /\ Len(files_priority) > 0
    /\ LET r == PassFrom(files_priority, 1, files_order, <<>>) IN
       /\ files_order' = r.order
       /\ to_pop' = r.popped
       /\ files_priority' = SelectSeq(r.priority, LAMBDA e : e.file \notin Range(r.popped))
    /\ pc' = "while"
    /\ UNCHANGED <<err, files_index>>
    /\ UNCHANGED dispatch_vars

\* line 434
ReturnOrder ==
    /\ pc \in {"sort", "while"}
    /\ Len(files_priority) = 0
    /\ pc' = "ordered"
    /\ UNCHANGED <<err, files_index, files_priority, files_order, to_pop>>
    /\ UNCHANGED dispatch_vars

---------------------------------------------------------------------------
(* The input directories of the orderer *)

OrderNames == <<"a.h", "b.inl", "c.inl", "d.h", "e.inl">>

\* the text of the directive that quote-includes file f
QuoteLine(f) == "#include  \"" \o f \o "\"\n"

OrderFiles == Slice(OrderNames, 1, MaxFiles)

\* lines every file of the orderer's input starts with
OrderPrelude == <<"#pragma once\n", "#include <stdint.h>\n", "#include EOS_PLATFORM_BASE\n">>

\* an include directive the scan rejects, or none
OrderExtra == {"", "#include \"missing.h\"\n", "#include \"a.h\" // base\n", "#include a-b\n"}

QuoteLines(targets) ==
    LET on == SelectSeq(OrderFiles, LAMBDA f : f \in targets)
    IN  [k \in 1..Len(on) |-> QuoteLine(on[k])]

\* the sets of at most n (including file, included file) pairs
RECURSIVE EdgeSets(_)
EdgeSets(n) ==
    IF n = 0 THEN {{}}
    ELSE LET smaller == EdgeSets(n - 1)
         IN  smaller \cup {g \cup {e} : g \in smaller,
                                         e \in Range(OrderFiles) \X Range(OrderFiles)}

\* the include graphs of the input directories
OrderGraphs == EdgeSets(MaxIncludes)

InitOrder ==
    /\ pc = "scan"
    /\ err = ""
    /\ \E g \in OrderGraphs :
       \E extra \in OrderExtra :
          /\ extra # "" => g = {}
          /\ files_index =
              [k \in 1..Len(OrderFiles) |->
                  [file |-> OrderFiles[k],
                   content |-> OrderPrelude
                               \o QuoteLines({f \in Range(OrderFiles) : <<OrderFiles[k], f>> \in g})
                               \o (IF k = 1 /\ extra # "" THEN <<extra>> ELSE <<>>)]]
    /\ files_priority = <<>>
    /\ files_order = <<>>
    /\ to_pop = <<>>
    /\ InitRegistry

NextOrder == ScanIncludes \/ ExcludeInl \/ SortPass \/ ReturnOrder

SpecOrder == InitOrder /\ [][NextOrder]_vars

---------------------------------------------------------------------------
(* sort_dict, sort_list_items and the document index_sdk_directory returns *)

\* the values sort_dict tells apart: a dict is its (key, value) pairs in key
\* order, a list its items, anything else a scalar
JStr(s) == [str |-> s]

JList(items) == [list |-> items]

JDict(items) == [dict |-> items]

IsDict(v) == DOMAIN v = {"dict"}

IsList(v) == DOMAIN v = {"list"}

\* the characters of the names and keys, in code point order
CodePoints == Digits \o Upper \o "_" \o Lower

\* a < b for two str
RECURSIVE StrLess(_, _)
StrLess(a, b) ==
    IF b = "" THEN FALSE
    ELSE IF a = "" THEN TRUE
    ELSE IF Char(a, 1) # Char(b, 1)
         THEN Find(CodePoints, Char(a, 1)) < Find(CodePoints, Char(b, 1))
    ELSE StrLess(From(a, 2), From(b, 2))

\* sorted(data.items()): the pairs in ascending order of their keys
RECURSIVE SortedItems(_)
SortedItems(items) ==
    IF Len(items) = 0 THEN items
    ELSE LET least == CHOOSE k \in 1..Len(items) :
                         \A n \in 1..Len(items) : ~StrLess(items[n][1], items[k][1])
         IN  <<items[least]>>
             \o SortedItems(Slice(items, 1, least - 1) \o Slice(items, least + 1, Len(items)))

RECURSIVE sort_dict(_)
RECURSIVE sort_list_items(_)

\* the branch lines 555-557 and 563-565 share
SortValue(v) ==
    IF IsDict(v) THEN sort_dict(v)
    ELSE IF IsList(v) THEN sort_list_items(v)
    ELSE v

\* lines 552-558
sort_list_items(data) == JList([k \in 1..Len(data.list) |-> SortValue(data.list[k])])

\* lines 560-566
sort_dict(data) ==
    LET sorted == SortedItems(data.dict)
    IN  JDict([k \in 1..Len(sorted) |-> <<sorted[k][1], SortValue(sorted[k][2])>>])

\* an entry of an enum as the OrderedDict of lines 254, 291, 335 and 348
EntryDict(entry) ==
    JDict(<<<<"comment", JStr(entry.comment)>>, <<"name", JStr(entry.name)>>,
            <<"value", JStr(entry.value)>>>>)

\* the entries of an enum in the order of their names
ValuesListByName(v) ==
    LET named == SortedItems([k \in 1..Len(v.values) |-> <<v.values[k].name, v.values[k]>>])
    IN  JList([k \in 1..Len(named) |-> EntryDict(named[k][2])])

\* [*v.pop('values').values()]: the entries of an enum in the order of its mapping
ValuesList(v) == JList([k \in 1..Len(v.values) |-> EntryDict(v.values[k])])

\* an enum record without its values, in the key order of lines 300-305 and 463-477
EnumItems(v) ==
    (IF "comment" \in DOMAIN v THEN <<<<"comment", JStr(v.comment)>>>> ELSE <<>>)
    \o <<<<"enumname", JStr(v.enumname)>>, <<"source", JStr(v.source)>>>>

\* line 546, for one enum
EnumDocument(v) == sort_dict(JDict(<<<<"values", ValuesList(v)>>>> \o EnumItems(v)))

\* lines 543-550
Document(reg) ==
    [callback_methods |-> reg.callbacks,
     defines |-> reg.defines,
     enums |-> [k \in 1..Len(reg.enums) |-> EnumDocument(reg.enums[k])],
     functions |-> reg.functions,
     structs |-> reg.structs,
     typedefs |-> reg.typedefs]

\* v.pop('values') of line 546: what is left of an enum record
Popped(v) == [f \in DOMAIN v \ {"values"} |-> v[f]]

---------------------------------------------------------------------------
(* index_sdk_directory *)

\* files_index[file]
ContentOf(index, file) ==
    index[CHOOSE k \in 1..Len(index) : index[k].file = file].content

\* lines 485-489
BaseOverride == <<"typedef int32_t EOS_Bool;", "#define EOS_TRUE 1", "#define EOS_FALSE 0">>

\* the file the loop of line 504 is at, and its lines
CurrentFile == files_order[fileno]

CurrentContent == ContentOf(files_index, CurrentFile)

\* lines 484-489, and the loop of line 504 entered with the first file
Begin ==
    /\ pc = "ordered"
    /\ IF "eos_base.h" \in Range(files_order)
       THEN /\ files_index' =
                   [k \in 1..Len(files_index) |->
                       IF files_index[k].file = "eos_base.h"
                       THEN [files_index[k] EXCEPT !.content = BaseOverride]
                       ELSE files_index[k]]
            /\ fileno' = 1
            /\ pc' = "line"
            /\ err' = err
       ELSE /\ pc' = "fatal"
            /\ err' = "AssertionError"
            /\ UNCHANGED <<files_index, fileno>>
    /\ UNCHANGED <<files_priority, files_order, to_pop>>
    /\ UNCHANGED <<cursor, enum_last_index, last_file_comment,
                   defines, functions, callbacks, structs, typedefs, enums, output>>

\* lines 509-541: one iteration of the while loop
DispatchLine ==
    /\ pc = "line"
    /\ cursor < Len(CurrentContent)
    /\ \E s \in {DispatchStep(Registry, CurrentContent, CurrentFile, cursor, enum_last_index)} :
       IF s.ok
       THEN /\ cursor' = s.i
            /\ enum_last_index' = s.enum_last_index
            /\ last_file_comment' = s.last_file_comment
            /\ defines' = s.reg.defines
            /\ functions' = s.reg.functions
            /\ callbacks' = s.reg.callbacks
            /\ structs' = s.reg.structs
            /\ typedefs' = s.reg.typedefs
            /\ enums' = s.reg.enums
            /\ UNCHANGED <<pc, err>>
       ELSE /\ pc' = "fatal"
            /\ err' = s.err
            /\ UNCHANGED <<cursor, enum_last_index, last_file_comment,
                           defines, functions, callbacks, structs, typedefs, enums>>
    /\ UNCHANGED <<order_vars, fileno, output>>

\* lines 504-508: the while loop is left and the next file is entered
NextFile ==
    /\ pc = "line"
    /\ cursor >= Len(CurrentContent)
    /\ fileno < Len(files_order)
    /\ fileno' = fileno + 1
    /\ cursor' = 0
    /\ enum_last_index' = 0
    /\ last_file_comment' = ""
    /\ UNCHANGED <<pc, err, order_vars>>
    /\ UNCHANGED <<defines, functions, callbacks, structs, typedefs, enums, output>>

\* lines 543-550, after the last file
BuildDocument ==
    /\ pc = "line"
    /\ cursor >= Len(CurrentContent)
    /\ fileno = Len(files_order)
    /\ output' = Document(Registry)
    /\ enums' = [k \in 1..Len(enums) |-> Popped(enums[k])]
    /\ pc' = "done"
    /\ UNCHANGED <<err, order_vars>>
    /\ UNCHANGED <<fileno, cursor, enum_last_index, last_file_comment,
                   defines, functions, callbacks, structs, typedefs>>

Next ==
    \/ ScanIncludes
    \/ ExcludeInl
    \/ SortPass
    \/ ReturnOrder
    \/ Begin
    \/ DispatchLine
    \/ NextFile
    \/ BuildDocument

---------------------------------------------------------------------------
(* The input directories of index_sdk_directory *)

\* the blocks of at most this many are spread over the files of a directory
MaxBlocks == 2

\* the lines of eos_base.h in the directory (the indexer replaces them)
BaseContent == <<"#pragma once\n", "#define EOS_CALL __stdcall\n", "struct EOS_Opaque;\n">>

\* the files of a directory that the blocks go to
BlockFiles == <<"eos_common.h", "eos_ui_keys.h">>

\* well-formed declarations, one block of lines each
DeclBlocks ==
    <<<<"/** Frees the memory. */\n", "EOS_DECLARE_FUNC(void) EOS_Free(int32_t Handle);\n">>,
      <<"EOS_DECLARE_CALLBACK(EOS_OnDone, const EOS_Info* Data);\n">>,
      <<"EOS_STRUCT(EOS_Info, (\n", "  int32_t ApiVersion;\n", "));\n">>,
      <<"EOS_ENUM(EOS_EKind,\n", "  EOS_EK_B = 1,\n", "  EOS_EK_A\n", ");\n">>,
      <<"EOS_RESULT_VALUE(EOS_Success, 0)\n">>,
      <<"typedef int32_t EOS_Id;\n">>,
      <<"#define EOS_MAX 64\n">>,
      <<"EOS_UI_KEY_ENTRY(EOS_UIK_, Tab)\n">>>>

\* malformed or unusual input, and a declaration to follow it
FaultBlocks ==
    <<<<"int32_t EOS_Global;\n">>,
      <<"  EOS_DECLARE_FUNC(void) EOS_Free(int32_t Handle);\n">>,
      <<"EOS_DECLARE_CALLBACK(EOS_AntiCheatClient_ReceiveMessageFromPeer, const EOS_Info* Data);\n">>,
      <<"#define EOS_AntiCheatClient_ReceiveMessageFromPeer 1\n">>,
      <<"/** A comment that\n", " * is never closed\n">>,
      <<"/* A closed comment */\n">>,
      <<"#if defined(EOS_A) && \\\n">>,
      <<"EOS_STRUCT(EOS_Info, (\n", "  int32_t ApiVersion;\n">>,
      <<"EOS_ENUM(EOS_EKind,\n", "  EOS_EK_A = 0,\n">>,
      <<"#pragma once\n", "// a line comment\n", "\n">>,
      <<"#define EOS_MAX 64\n">>>>

\* the sequences of at most n items of pool
RECURSIVE SeqsUpTo(_, _)
SeqsUpTo(pool, n) ==
    IF n = 0 THEN {<<>>}
    ELSE LET shorter == SeqsUpTo(pool, n - 1)
         IN  shorter \cup {Append(q, b) : q \in shorter, b \in pool}

\* the lines of a sequence of blocks
RECURSIVE Flatten(_)
Flatten(blocks) ==
    IF Len(blocks) = 0 THEN <<>> ELSE Head(blocks) \o Flatten(Tail(blocks))

\* the index of a directory: os.walk lists the files of the directory in sorted
\* order and, after them, the files of its subdirectory (line 381-387)
DirectoryIndex(common, keys, nested) ==
    LET base == [file |-> "eos_base.h", content |-> BaseContent]
        c == [file |-> BlockFiles[1], content |-> Flatten(common)]
        k == [file |-> BlockFiles[2], content |-> Flatten(keys)]
    IN  IF nested THEN <<base, k, c>> ELSE <<base, c, k>>

\* the directories that hold at most MaxBlocks blocks of pool
InitWith(pool, layouts) ==
    /\ pc = "scan"
    /\ err = ""
    /\ \E common \in SeqsUpTo(Range(pool), MaxBlocks) :
       \E keys \in SeqsUpTo(Range(pool), MaxBlocks) :
       \E nested \in layouts :
          /\ Len(common) + Len(keys) <= MaxBlocks
          /\ files_index = DirectoryIndex(common, keys, nested)
    /\ files_priority = <<>>
    /\ files_order = <<>>
    /\ to_pop = <<>>
    /\ InitRegistry

Init == InitWith(DeclBlocks, BOOLEAN)

Spec == Init /\ [][Next]_vars

InitFaults == InitWith(FaultBlocks, {FALSE})

SpecFaults == InitFaults /\ [][Next]_vars

\* the entries of an enum block number at most this many lines
MaxEntries == 3

\* the lines between the first and the last line of an enum block
EnumEntryLines ==
    <<"  EOS_EK_A = 5,\n", "  EOS_EK_B,\n", "  EOS_EK_C,\n", "  EOS_EK_D = 0x10,\n",
      "  /** The last kind. */\n", "  EOS_EK_E\n">>

\* the directories whose eos_common.h is one enum block
InitEnum ==
    /\ pc = "scan"
    /\ err = ""
    /\ \E entries \in SeqsUpTo(Range(EnumEntryLines), MaxEntries) :
          files_index =
              DirectoryIndex(<<<<"EOS_ENUM(EOS_EKind,\n">> \o entries \o <<");\n">>>>,
                             <<>>, FALSE)
    /\ files_priority = <<>>
    /\ files_order = <<>>
    /\ to_pop = <<>>
    /\ InitRegistry

SpecEnum == InitEnum /\ [][Next]_vars

\* the directories of indexes, before any file is scanned
InitOver(indexes) ==
    /\ pc = "scan"
    /\ err = ""
    /\ files_index \in indexes
    /\ files_priority = <<>>
    /\ files_order = <<>>
    /\ to_pop = <<>>
    /\ InitRegistry

\* the parts of a function-pointer typedef: its return type, the name it
\* declares and the text between the parentheses of its parameters
TypedefParts ==
    [ret : {"void", "const char*"},
     name : {"Foo", "EOS_Fn"},
     params : {"int32_t Param", "void", "const Foo* Data, int32_t Foo"}]

\* the line  typedef R (*N)(P);
TypedefBlock(t) == <<"typedef " \o t.ret \o " (*" \o t.name \o ")(" \o t.params \o ");\n">>

\* the parameter list of a function declaration has at most this many segments
MaxParams == 2

\* the segments of a parameter list: the text before the last space and the
\* token after it
ParamSegments ==
    {[type |-> "const char*", name |-> "Name"],
     [type |-> "int32_t", name |-> "Count"],
     [type |-> "", name |-> "int32_t"]}

SegmentText(s) == IF s.type = "" THEN s.name ELSE s.type \o " " \o s.name

\* the segments of a list, separated by a comma and a space
RECURSIVE CommaList(_)
CommaList(segments) ==
    IF Len(segments) = 0 THEN ""
    ELSE IF Len(segments) = 1 THEN SegmentText(segments[1])
    ELSE SegmentText(segments[1]) \o ", " \o CommaList(Tail(segments))

\* the declaration of the function EOS_Free with the text params between its
\* parentheses
FunctionBlock(params) == <<"EOS_DECLARE_FUNC(void) EOS_Free(" \o params \o ");\n">>

\* the texts between the parentheses: void, nothing, or a list of segments
ParamTexts == {"void"} \cup {CommaList(s) : s \in SeqsUpTo(ParamSegments, MaxParams)}

\* the values a doc comment recommends, and their text up to the first period
RecommendedTexts ==
    {[text |-> "EOS_INFO_LATEST", upto |-> "EOS_INFO_LATEST"], [text |-> "1.5", upto |-> "1"]}

\* the parts of the doc comment of a struct field: the text before the phrase,
\* whether the phrase is there, whether a colon and a space precede it, the
\* value it names, the text after the value, and whether the field is a member
\* of a union of the struct
FieldComments ==
    [lead : {"", "API Version", "First. API Version"},
     phrase : BOOLEAN,
     colon : BOOLEAN,
     value : RecommendedTexts,
     rest : {"", ".", ". See the docs."},
     union : BOOLEAN]

\* the text of the doc comment made of the parts c
CommentText(c) ==
    IF ~c.phrase THEN c.lead
    ELSE c.lead \o (IF c.colon THEN ": " ELSE IF c.lead = "" THEN "" ELSE " ")
            \o "Set this to " \o c.value.text \o c.rest

\* the struct EOS_Info with the field ApiVersion under the doc comment of c
StructBlock(c) ==
    LET doc == IF CommentText(c) = "" THEN <<>>
               ELSE <<"  /** " \o CommentText(c) \o " */\n">>
    IN  IF c.union
        THEN <<"EOS_STRUCT(EOS_Info, (\n", "  union\n", "  {\n">> \o doc
                \o <<"    int32_t ApiVersion;\n", "  } Data;\n", "));\n">>
        ELSE <<"EOS_STRUCT(EOS_Info, (\n">> \o doc \o <<"  int32_t ApiVersion;\n", "));\n">>

\* the directories whose eos_common.h is one typedef, one function declaration
\* or one struct
InitShapes ==
    InitOver({DirectoryIndex(<<b>>, <<>>, FALSE) :
                 b \in {TypedefBlock(t) : t \in TypedefParts}
                          \cup {FunctionBlock(p) : p \in ParamTexts}
                          \cup {StructBlock(c) : c \in FieldComments}})

SpecShapes == InitShapes /\ [][Next]_vars

\* the names of the #define directives of the input: two names of the ignore
\* list and a name that only starts with one
DefineNames == {"EOS_RESULT_VALUE", "EOS_UI_KEY_ENTRY", "EOS_RESULT_VALUE_EXTRA"}

\* what follows the name of a #define directive, up to the end of its last line
DefineTails == {<<" 1\n">>, <<"(Name, Value) Name = Value,\n">>, <<" \\\n", "  1\n">>}

\* the lines of the directive  #define name tail
DefineBlock(name, tail) == <<"#define " \o name \o Head(tail)>> \o Tail(tail)

\* the directories whose eos_common.h is at most MaxBlocks #define directives
InitIgnored ==
    InitOver({DirectoryIndex(blocks, <<>>, FALSE) :
                 blocks \in SeqsUpTo({DefineBlock(n, t) : n \in DefineNames, t \in DefineTails},
                                     MaxBlocks)})

SpecIgnored == InitIgnored /\ [][Next]_vars

\* a file of block comments, declarations and other lines has at most this
\* many of them
MaxItems == 3

\* what a file is made of: block comments (with the text absorb_comment gives
\* for them), lines that are neither a comment nor a declaration, and
\* declarations (with the name they are registered under)
FileItems ==
    {[kind |-> "doc", lines |-> <<"/** First. */\n">>, text |-> "First."],
     [kind |-> "doc", lines |-> <<"/**\n", " * Second\n", " * comment.\n", " */\n">>,
      text |-> "Second\ncomment."],
     [kind |-> "gap", lines |-> <<"\n">>, text |-> ""],
     [kind |-> "gap", lines |-> <<"// note\n">>, text |-> ""],
     [kind |-> "decl", lines |-> <<"EOS_DECLARE_FUNC(void) EOS_Free(int32_t Handle);\n">>,
      text |-> "EOS_Free"],
     [kind |-> "decl", lines |-> <<"#define EOS_MAX 64\n">>, text |-> "EOS_MAX"]}

\* the blocks of lines of a sequence of items
ItemBlocks(items) == [k \in 1..Len(items) |-> items[k].lines]

\* the directories whose eos_common.h is at most MaxItems items
InitComments ==
    InitOver({DirectoryIndex(ItemBlocks(items), <<>>, FALSE) :
                 items \in SeqsUpTo(FileItems, MaxItems)})

SpecComments == InitComments /\ [][Next]_vars

\* eos_ui_keys.h has at most this many key invocations
MaxKeys == 3

\* the macro and the value of a key invocation, None for an omitted value
KeyForms ==
    {[macro |-> "EOS_UI_KEY_ENTRY_FIRST", value |-> "8"],
     [macro |-> "EOS_UI_KEY_ENTRY", value |-> None],
     [macro |-> "EOS_UI_KEY_ENTRY", value |-> "3"],
     [macro |-> "EOS_UI_KEY_CONSTANT", value |-> "(1 << 16)"],
     [macro |-> "EOS_UI_KEY_CONSTANT", value |-> None],
     [macro |-> "EOS_UI_KEY_CONSTANT_LAST", value |-> None]}

\* the name of the key of the invocation at k of a file
KeyName(k) == "Key" \o StrOf(k)

\* the line of the invocation at k of a file
KeyLine(form, k) ==
    form.macro \o "(EOS_UIK_, " \o KeyName(k)
        \o (IF form.value = None THEN "" ELSE ", " \o form.value) \o ")\n"

\* the lines of the invocations forms, one block each
KeyBlocks(forms) == [k \in 1..Len(forms) |-> <<KeyLine(forms[k], k)>>]

\* the directories whose eos_ui_keys.h is at most MaxKeys key invocations
InitKeys ==
    InitOver({DirectoryIndex(<<>>, KeyBlocks(forms), FALSE) :
                 forms \in SeqsUpTo(KeyForms, MaxKeys)})

SpecKeys == InitKeys /\ [][Next]_vars

\* the parts of an enum marker line: its macro, the enum it names (the three
\* bootstrap enums and another one) and what follows its parenthesis
MarkerParts ==
    [macro : {"EOS_ENUM_START", "EOS_ENUM_END"},
     enum : {"EOS_EResult", "EOS_UI_EKeyCombination", "EOS_UI_EInputStateButtonFlags",
             "EOS_EOther"},
     end : {"", ";"}]

MarkerLine(m) == m.macro \o "(" \o m.enum \o ")" \o m.end \o "\n"

\* what stands between two marker lines: nothing, an entry of EOS_EResult, or
\* an enum block
MarkerBodies ==
    {<<>>,
     <<"EOS_RESULT_VALUE(EOS_Success, 0)\n">>,
     <<"EOS_ENUM(EOS_EKind,\n", "  EOS_EK_A = 0\n", ");\n">>}

\* the directories whose eos_common.h is a marker line, a body and a marker line
InitMarkers ==
    InitOver({DirectoryIndex(<<<<MarkerLine(first)>>, body, <<MarkerLine(last)>>>>, <<>>, FALSE) :
                 first \in MarkerParts, body \in MarkerBodies, last \in MarkerParts})

SpecMarkers == InitMarkers /\ [][Next]_vars

\* a struct block has at most this many members, comments and blank lines
\* between its first and its last line
MaxMembers == 3

\* what stands in a struct block: block comments (with their text), a blank
\* line, scalar field declarations and a union (with the name of the entry)
StructMembers ==
    {[kind |-> "doc", lines |-> <<"  /** First. */\n">>, text |-> "First."],
     [kind |-> "doc", lines |-> <<"  /** Second. */\n">>, text |-> "Second."],
     [kind |-> "gap", lines |-> <<"\n">>, text |-> ""],
     [kind |-> "field", lines |-> <<"  int32_t ApiVersion;\n">>, text |-> "ApiVersion"],
     [kind |-> "field", lines |-> <<"  char Name[EOS_MAX];\n">>, text |-> "Name"],
     [kind |-> "union",
      lines |-> <<"  union\n", "  {\n", "    int32_t AsInt;\n", "  } Value;\n">>,
      text |-> "Value"]}

\* the directories whose eos_common.h is the struct EOS_Info with at most
\* MaxMembers of these between its first and its last line
InitStruct ==
    InitOver({DirectoryIndex(<<<<"EOS_STRUCT(EOS_Info, (\n">>>> \o ItemBlocks(members)
                                \o <<<<"));\n">>>>, <<>>, FALSE) :
                 members \in SeqsUpTo(StructMembers, MaxMembers)})

SpecStruct == InitStruct /\ [][Next]_vars

\* lines 509-541 seen from outside the loop body: the while loop is at a line,
\* and the iteration leaves a cursor at most one past the end or ends the run
Iteration ==
    /\ pc = "line"
    /\ cursor < Len(CurrentContent)
    /\ pc' \in {"line", "fatal"}
    /\ cursor' \in 0..Len(CurrentContent) + 1

\* the run over the directories of InitFaults in which the while loop does not
\* stop at a line it can dispatch: the program is sequential and nothing
\* suspends it
SpecFair == InitFaults /\ [][Next]_vars /\ WF_<<pc, cursor>>(Iteration)

---------------------------------------------------------------------------
(* The loops of index_sdk_directory as functions of the files and their order *)

\* the registry before any file is read (lines 457-478)
EmptyRegistry ==
    [defines |-> <<>>, functions |-> <<>>, callbacks |-> <<>>, structs |-> <<>>,
     typedefs |-> <<>>,
     enums |-> <<BootstrapEnum(BootstrapEnums[1], "eos_common.h"),
                 BootstrapEnum(BootstrapEnums[2], "eos_ui_keys.h"),
                 BootstrapEnum(BootstrapEnums[3], "eos_ui_buttons.h")>>]

\* lines 509-541: the while loop over the lines of one file, from cursor i on
RECURSIVE RunFile(_, _, _, _, _)
RunFile(reg, content, file, i, last_index) ==
    IF i >= Len(content) THEN [ok |-> TRUE, err |-> "", reg |-> reg]
    ELSE LET s == DispatchStep(reg, content, file, i, last_index) IN
         IF ~s.ok THEN [ok |-> FALSE, err |-> s.err, reg |-> s.reg]
         ELSE RunFile(s.reg, content, file, s.i, s.enum_last_index)

\* lines 504-541: the loop over the files of order, from its k-th file on
RECURSIVE RunFiles(_, _, _, _)
RunFiles(reg, index, order, k) ==
    IF k > Len(order) THEN [ok |-> TRUE, err |-> "", reg |-> reg]
    ELSE LET r == RunFile(reg, ContentOf(index, order[k]), order[k], 0, 0) IN
         IF ~r.ok THEN r ELSE RunFiles(r.reg, index, order, k + 1)

---------------------------------------------------------------------------
(* Claims about build_file_read_order (SpecOrder) *)

\* the files of the input that the text of file quote-includes
IncludesOf(file) ==
    LET k == CHOOSE n \in 1..Len(files_index) : files_index[n].file = file
    IN  {f \in Range(Keys(files_index)) : QuoteLine(f) \in Range(files_index[k].content)}

PosIn(order, f) == CHOOSE k \in 1..Len(order) : order[k] = f

\* C1: the order never places a file before a file it quote-includes: of two
\* files of the result, the included one has the lower index; a.h including
\* b.inl (which includes nothing) yields b.inl before a.h.
C1_IncludedFirst ==
    /\ \A i \in 1..Len(files_order) :
          LET included == IncludesOf(files_order[i])
          IN  \A j \in 1..Len(files_order) : files_order[j] \in included => j < i
    /\ (/\ pc = "ordered"
        /\ IncludesOf("a.h") = {"b.inl"}
        /\ IncludesOf("b.inl") = {})
       => /\ {"a.h", "b.inl"} \subseteq Range(files_order)
          /\ PosIn(files_order, "b.inl") < PosIn(files_order, "a.h")

\* C1 witness: the order is returned and holds a file after a file it includes,
\* although the input directory lists the including file first
C1_Witness ==
    /\ pc = "ordered"
    /\ IncludesOf("a.h") = {"b.inl"}
    /\ IncludesOf("b.inl") = {}
    /\ {"a.h", "b.inl"} \subseteq Range(files_order)
    /\ PosIn(files_order, "b.inl") < PosIn(files_order, "a.h")

\* a pass of the sort loop has ended without emitting a file and files remain
FruitlessPass == pc = "while" /\ to_pop = <<>> /\ Len(files_priority) > 0

\* no file of the input includes itself, and every file left includes only
\* files that are left: the files left form a cycle
ProperCycle ==
    /\ \A k \in 1..Len(files_index) :
          files_index[k].file \notin IncludesOf(files_index[k].file)
    /\ \A k \in 1..Len(files_priority) :
          files_priority[k].includes \subseteq Range(Keys(files_priority))

\* C2: with a cyclic include graph, a full pass in which no file qualifies and
\* the graph is still non-empty aborts the run with a fatal error.
C2_CycleIsFatal == (FruitlessPass /\ ProperCycle) => pc = "fatal"

\* C15: a file that quote-includes itself gains no dependency edge on itself
\* (the include is detected and ignored), and the file is emitted once the
\* other files it includes are emitted: no pass ends without emitting a file
\* while a file is left whose other includes are all in the order.
C15_SelfIncludeIgnored ==
    /\ \A k \in 1..Len(files_priority) :
          files_priority[k].file \notin files_priority[k].includes
    /\ FruitlessPass =>
          \A k \in 1..Len(files_priority) :
             ~((IncludesOf(files_priority[k].file) \ {files_priority[k].file})
                  \subseteq Range(files_order))

\* the files of the directory
AllFiles == Range(Keys(files_index))

\* the files the orderer has not excluded: those it has still to emit and those
\* it has emitted
InOrder == Range(Keys(files_priority)) \cup Range(files_order)

\* the exclusion is done
AfterExclusion == pc \in {"sort", "while", "ordered"}

\* C16 as stated: an .inl file is excluded from the order exactly when no
\* other file of the directory includes it: an .inl file that another file (a
\* .h or an .inl) includes stays, and no .h file is excluded.
C16_ExcludedWhenNotIncluded ==
    AfterExclusion =>
        InOrder = {f \in AllFiles :
                      \/ EndsWith(f, ".h")
                      \/ \E g \in AllFiles \ {f} : f \in IncludesOf(g)}

\* C16 amended: an .inl file is excluded from the order exactly when no .h
\* file of the directory includes it: an .inl file that a .h file includes
\* stays, an .inl file that only .inl files include is excluded, and no .h file
\* is excluded; the returned order holds exactly the files that stay.
C16_ExcludedWhenNoHeaderIncludes ==
    /\ AfterExclusion =>
          InOrder = {f \in AllFiles :
                        \/ EndsWith(f, ".h")
                        \/ \E g \in AllFiles : EndsWith(g, ".h") /\ f \in IncludesOf(g)}
    /\ pc = "ordered" => Range(files_order) = InOrder

\* C16 witness: c.inl, which a.h includes, stays, and b.inl, which only c.inl
\* includes, is excluded
C16_Witness ==
    /\ pc = "sort"
    /\ IncludesOf("a.h") = {"c.inl"}
    /\ IncludesOf("c.inl") = {"b.inl"}
    /\ IncludesOf("b.inl") = {}
    /\ IncludesOf("d.h") = {}
    /\ InOrder = {"a.h", "c.inl", "d.h"}

\* the files that f includes, directly or through at most n other files
RECURSIVE IncludedWithin(_, _)
IncludedWithin(f, n) ==
    IF n = 0 THEN IncludesOf(f)
    ELSE LET near == IncludedWithin(f, n - 1)
         IN  near \cup UNION {IncludesOf(g) : g \in near}

\* no file of the directory includes itself, directly or through other files
AcyclicIncludes ==
    \A f \in AllFiles : f \notin IncludedWithin(f, Cardinality(AllFiles))

\* the files the exclusion of line 414 leaves: the .h files and the .inl files
\* that a .h file includes
Staying ==
    {f \in AllFiles :
        \/ EndsWith(f, ".h")
        \/ \E g \in AllFiles : EndsWith(g, ".h") /\ f \in IncludesOf(g)}

\* C22: for an acyclic include graph whose quoted includes all name files of
\* the directory, the orderer terminates and returns every file that is not
\* excluded exactly once, also when an excluded .inl file is included by a file
\* that stays: no pass of the sort loop ends without emitting a file, and the
\* order returned holds each file that stays once.
C22_AcyclicOrderReturned ==
    (AfterExclusion /\ AcyclicIncludes) =>
        /\ ~FruitlessPass
        /\ pc = "ordered" =>
              /\ Range(files_order) = Staying
              /\ Len(files_order) = Cardinality(Staying)

---------------------------------------------------------------------------
(* Claims about the registry and the dispatcher (Spec, SpecFaults, SpecEnum) *)

\* the loop over the lines of a file is at a line
AtLine == pc = "line" /\ cursor < Len(CurrentContent)

\* the run was ended by the iteration at the cursor
EndedAtLine == pc = "fatal" /\ fileno >= 1 /\ cursor < Len(CurrentContent)

\* every file is read and the document is about to be built
Finished == pc = "line" /\ cursor >= Len(CurrentContent) /\ fileno = Len(files_order)

\* the line the iteration at the cursor dispatches
Dispatched == LineAt(CurrentContent, cursor)

HasDispatched == Dispatched.ok /\ Dispatched.i <= Len(CurrentContent)

NoDuplicate(records, key) ==
    \A a, b \in 1..Len(records) : records[a][key] = records[b][key] => a = b

\* the key of the records of a registrar of the table
KeyOf(registrar) ==
    CASE registrar = "functions" -> "methodname_flat"
      [] registrar = "callbacks" -> "callbackname"
      [] registrar = "structs" -> "struct"
      [] registrar = "enums" -> "enumname"
      [] OTHER -> "name"

\* the names a mapping of the registry holds
NamesIn(mapping) ==
    CASE mapping = "functions" -> {functions[k].methodname_flat : k \in 1..Len(functions)}
      [] mapping = "callbacks" -> {callbacks[k].callbackname : k \in 1..Len(callbacks)}
      [] mapping = "structs" -> {structs[k].struct : k \in 1..Len(structs)}
      [] mapping = "enums" -> {enums[k].enumname : k \in 1..Len(enums)}
      [] mapping = "defines" -> {defines[k].name : k \in 1..Len(defines)}
      [] mapping = "typedefs" -> {typedefs[k].name : k \in 1..Len(typedefs)}
      [] OTHER -> LET v == enums[EnumIndex(enums, mapping)].values
                  IN  {v[k].name : k \in 1..Len(v)}

NoRecord == [mapping |-> "", name |-> ""]

\* the record the iteration at the cursor has for a registrar: the mapping it
\* is for (an enum's name for the value mapping of that enum) and its name
Pending ==
    LET m == Dispatched
        k == FlagOf(m.line)
        p == Callback(flags[k].callback, CurrentContent, m.i, m.line, m.c, CurrentFile)
        u == parse_ui_enum(m.i, m.line, m.c, CurrentFile, enum_last_index)
    IN  IF ~HasDispatched THEN NoRecord
        ELSE IF k # 0
        THEN IF flags[k].registrar # "noop" /\ p.ok
             THEN [mapping |-> flags[k].registrar, name |-> p.def[KeyOf(flags[k].registrar)]]
             ELSE NoRecord
        ELSE IF StartsWith(m.line, "EOS_UI_") /\ u.ok
        THEN [mapping |-> u.parent, name |-> u.def.name]
        ELSE NoRecord

\* the record at the cursor has a name its mapping holds already
PendingDuplicate == Pending # NoRecord /\ Pending.name \in NamesIn(Pending.mapping)

IsPrefix(a, b) == Len(a) <= Len(b) /\ \A k \in 1..Len(a) : a[k] = b[k]

C3_NoSecondRecord ==
    /\ NoDuplicate(defines, "name")
    /\ NoDuplicate(functions, "methodname_flat")
    /\ NoDuplicate(callbacks, "callbackname")
    /\ NoDuplicate(structs, "struct")
    /\ NoDuplicate(typedefs, "name")
    /\ NoDuplicate(enums, "enumname")
    /\ \A k \in 1..Len(enums) :
          "values" \in DOMAIN enums[k] => NoDuplicate(enums[k].values, "name")

C3_NoOverwrite ==
    pc' # "done" =>
        /\ IsPrefix(defines, defines')
        /\ IsPrefix(functions, functions')
        /\ IsPrefix(callbacks, callbacks')
        /\ IsPrefix(structs, structs')
        /\ IsPrefix(typedefs, typedefs')
        /\ Len(enums) <= Len(enums')
        /\ \A k \in 1..Len(enums) :
              /\ Popped(enums[k]) = Popped(enums'[k])
              /\ IsPrefix(enums[k].values, enums'[k].values)

C3_DuplicateAborts ==
    (AtLine /\ PendingDuplicate) => (pc' = "fatal" /\ Registry' = Registry)

\* C3: every mapping of the registry (defines, functions, callbacks, structs,
\* typedefs, enums, and the values of every enum) holds at most one record per
\* name; a record that is present is never replaced, and a record whose name
\* is present in its mapping aborts the run and leaves the registry as it was.
C3_OneRecordPerName ==
    /\ []C3_NoSecondRecord
    /\ [][C3_NoOverwrite /\ C3_DuplicateAborts]_vars

\* C3 witness: the run was aborted at a declaration whose name its mapping
\* holds already, and the mapping holds that name once
C3_Witness ==
    /\ EndedAtLine
    /\ PendingDuplicate
    /\ Pending.mapping = "functions"
    /\ Len(functions) = 1

\* the leading markers the dispatcher knows: those of the table and EOS_UI_
Markers ==
    UNION {Range(flags[k].linestart) : k \in 1..Len(flags)} \cup {"EOS_UI_"}

\* a line that is not blank, no line comment, no block comment and starts
\* with no marker
Unrecognized(line) ==
    /\ Strip(line) # ""
    /\ ~StartsWith(LStrip(line), "//")
    /\ ~StartsWith(LStrip(line), "/*")
    /\ \A mark \in Markers : ~StartsWith(line, mark)

\* C4: a line the cursor reaches (after the block comments before it) that is
\* not blank, no comment and starts with no known marker aborts the run with
\* an assertion error; the cursor and the registry stay as they were, and no
\* step follows the abort.
C4_UnknownLineAborts ==
    [][/\ pc # "fatal"
       /\ (AtLine /\ HasDispatched /\ Unrecognized(Dispatched.line))
            => /\ pc' = "fatal"
               /\ err' = "AssertionError"
               /\ cursor' = cursor
               /\ Registry' = Registry]_vars

\* C4 witness: the run was aborted at a line that starts with blanks before a
\* marker, with lines of the file left after it
C4_Witness ==
    /\ EndedAtLine
    /\ err = "AssertionError"
    /\ HasDispatched
    /\ Unrecognized(Dispatched.line)
    /\ StartsWith(LStrip(Dispatched.line), "EOS_DECLARE_FUNC")
    /\ Dispatched.i < Len(CurrentContent)

\* the lines of the enum block of eos_common.h that declare an entry
EntryTexts ==
    LET content == ContentOf(files_index, "eos_common.h")
    IN  SelectSeq(Slice(content, 2, Len(content) - 1),
                  LAMBDA l : ~Contains(l, "/*") /\ Strip(l) # "")

HasLiteral(text) == Contains(text, "=")

\* the entries of the enum EOS_EKind in the registry, <<>> if it is not there
KindValues ==
    IF \E k \in 1..Len(enums) : enums[k].enumname = "EOS_EKind" /\ "values" \in DOMAIN enums[k]
    THEN enums[EnumIndex(enums, "EOS_EKind")].values
    ELSE <<>>

\* C5: in a parsed enum, an entry without a literal has the value of the entry
\* before it plus one, a first entry without a literal has the value 0, and
\* the entries A = 5, B, C have the values 5, 6, 7.
C5_AutoIncrement ==
    Len(KindValues) > 0 =>
        /\ Len(KindValues) = Len(EntryTexts)
        /\ \A n \in 1..Len(KindValues) :
              ~HasLiteral(EntryTexts[n]) =>
                  /\ IsInt(KindValues[n].value)
                  /\ IF n = 1 THEN IntOf(KindValues[n].value) = 0
                     ELSE /\ IsInt(KindValues[n - 1].value)
                          /\ IntOf(KindValues[n].value) = IntOf(KindValues[n - 1].value) + 1
        /\ EntryTexts = <<"  EOS_EK_A = 5,\n", "  EOS_EK_B,\n", "  EOS_EK_C,\n">>
              => [n \in 1..3 |-> KindValues[n].value] = <<"5", "6", "7">>

\* C5 witness: the enum with the entries A = 5, B, C is in the registry
C5_Witness ==
    /\ EntryTexts = <<"  EOS_EK_A = 5,\n", "  EOS_EK_B,\n", "  EOS_EK_C,\n">>
    /\ Len(KindValues) = 3
    /\ KindValues[3].value = "7"

\* C6: a callback declaration with the tombstoned name is a fatal error and
\* is never inserted into the callbacks mapping.
C6_TombstonedCallbackRefused == ~HasName(callbacks, "callbackname", Tombstone)

\* the orders the files of order can be read in
Orders(order) ==
    LET n == Len(order)
        perms == {p \in [1..n -> 1..n] : \A a, b \in 1..n : p[a] = p[b] => a = b}
    IN  {[k \in 1..n |-> order[p[k]]] : p \in perms}

\* the records of a registry, without the order they were inserted in
RecordSets(reg) ==
    [defines |-> Range(reg.defines),
     functions |-> Range(reg.functions),
     callbacks |-> Range(reg.callbacks),
     structs |-> Range(reg.structs),
     typedefs |-> Range(reg.typedefs),
     enums |-> {[enum |-> Popped(reg.enums[k]), values |-> Range(reg.enums[k].values)] :
                   k \in 1..Len(reg.enums)}]

\* C7: when every file is read without an error, reading the files in any
\* other order ends without an error too and leaves the same records in every
\* mapping of the registry (the entries of the enums and their values
\* included); when a file aborts the run, every other order aborts it too.
C7_OrderIndependent ==
    /\ Finished =>
          \A order \in Orders(files_order) :
             LET r == RunFiles(EmptyRegistry, files_index, order, 1)
             IN  r.ok /\ RecordSets(r.reg) = RecordSets(Registry)
    /\ EndedAtLine =>
          \A order \in Orders(files_order) :
             ~RunFiles(EmptyRegistry, files_index, order, 1).ok

\* C7 witness: every file is read, eos_ui_keys.h before eos_common.h, and both
\* have left a record
C7_Witness ==
    /\ Finished
    /\ files_order = <<"eos_base.h", "eos_ui_keys.h", "eos_common.h">>
    /\ \E k \in 1..Len(functions) : functions[k].source = "eos_ui_keys.h"
    /\ \E k \in 1..Len(defines) : defines[k].source = "eos_common.h"

\* the line at the cursor opens a block comment that no line up to the end of
\* the file closes
OpenComment ==
    /\ StartsWith(LStrip(At(CurrentContent, cursor)), "/*")
    /\ \A k \in cursor..(Len(CurrentContent) - 1) : ~Contains(At(CurrentContent, k), "*/")

\* the line at the cursor starts a directive that is continued on every line
\* up to the end of the file
OpenDirective ==
    /\ \E n \in 1..Len(DIRECTIVES_IGNORE_LIST) :
          StartsWith(At(CurrentContent, cursor), DIRECTIVES_IGNORE_LIST[n])
    /\ \A k \in cursor..(Len(CurrentContent) - 1) :
          EndsWith(RStripChars(At(CurrentContent, k), {"\n"}), "\\")

\* C8: the end of the file inside an open block comment or an open continued
\* directive does not abort the run: the file counts as read to its end.
C8_TruncationIsNotFatal ==
    [][(AtLine /\ (OpenComment \/ OpenDirective))
          => (pc' = "line" /\ cursor' >= Len(CurrentContent))]_vars

\* the line dispatched at the cursor starts a struct block, or an enum block,
\* and no line after it is the closing token of the block
Unterminated ==
    /\ HasDispatched
    /\ LET after == {Strip(At(CurrentContent, k)) :
                        k \in Dispatched.i..(Len(CurrentContent) - 1)}
       IN  \/ StartsWith(Dispatched.line, "EOS_STRUCT") /\ "));" \notin after
           \/ /\ FlagOf(Dispatched.line) # 0
              /\ flags[FlagOf(Dispatched.line)].callback = "parse_enum"
              /\ ");" \notin after

\* C9: a struct block or an enum block without its closing token aborts the
\* run, and nothing is registered for it.
C9_UnterminatedBlockAborts ==
    [][(AtLine /\ Unterminated) => (pc' = "fatal" /\ Registry' = Registry)]_vars

\* C9 witness: the run was aborted with an assertion error at the end of a
\* file that is a struct block without its closing token
C9_Witness ==
    /\ EndedAtLine
    /\ cursor = 0
    /\ Unterminated
    /\ err = "AssertionError"
    /\ CurrentContent = <<"EOS_STRUCT(EOS_Info, (\n", "  int32_t ApiVersion;\n">>

\* the value a dict of the document has for key
ValueOf(dict, key) ==
    dict.dict[CHOOSE k \in 1..Len(dict.dict) : dict.dict[k][1] = key][2]

\* the names of the entries of an enum of the document, in the order of its values list
EntryNames(enum) ==
    LET entries == ValueOf(enum, "values").list
    IN  [k \in 1..Len(entries) |-> ValueOf(entries[k], "name").str]

Ascending(names) == \A k \in 1..(Len(names) - 1) : StrLess(names[k], names[k + 1])

\* the keys of a dict of the document, in their order
KeysOf(dict) == [k \in 1..Len(dict.dict) |-> dict.dict[k][1]]

\* C10 as stated: the names of consecutive entries of the values list of every
\* enum of the document are in ascending alphabetical order.
C10_ValuesSortedByName ==
    pc = "done" => \A k \in 1..Len(output.enums) : Ascending(EntryNames(output.enums[k]))

\* C10 amended: the values list of every enum of the document holds the
\* entries in the order in which they were inserted into the enum's value
\* mapping; only the keys of the enum and of each entry are in ascending order.
C10_ValuesInInsertionOrder ==
    [][pc' = "done" =>
          /\ Len(output'.enums) = Len(enums)
          /\ \A k \in 1..Len(enums) :
                /\ EntryNames(output'.enums[k])
                      = [n \in 1..Len(enums[k].values) |-> enums[k].values[n].name]
                /\ Ascending(KeysOf(output'.enums[k]))
                /\ \A n \in 1..Len(enums[k].values) :
                      Ascending(KeysOf(ValueOf(output'.enums[k], "values").list[n]))]_vars

\* C10 witness: the document holds the enum whose entries were declared as
\* EOS_EK_B, EOS_EK_A, in that order
C10_Witness ==
    /\ pc = "done"
    /\ \E k \in 1..Len(output.enums) :
          /\ ValueOf(output.enums[k], "enumname").str = "EOS_EKind"
          /\ EntryNames(output.enums[k]) = <<"EOS_EK_B", "EOS_EK_A">>

\* the lines of eos_common.h in the directory
CommonContent == ContentOf(files_index, "eos_common.h")

\* C11: a function-pointer typedef  typedef R (*N)(P);  is registered under the
\* name N with the type  R (*)(P) : the return type followed by the
\* parenthesized signature without the one occurrence of the name; the line
\* typedef void (*Foo)(int32_t Param);  gives the type  void (*)(int32_t Param).
C11_FunctionPointerType ==
    \A t \in TypedefParts :
       (Finished /\ CommonContent = TypedefBlock(t)) =>
           \E k \in 1..Len(typedefs) :
              /\ typedefs[k].name = t.name
              /\ typedefs[k].type = t.ret \o " (*)(" \o t.params \o ")"

\* the field ApiVersion of the registered struct EOS_Info, inside the union
\* Data of the struct or directly among its fields
ApiVersionField(union) ==
    LET fields == structs[CHOOSE k \in 1..Len(structs) : structs[k].struct = "EOS_Info"].fields
    IN  IF union THEN fields[1].unionitems[1] ELSE fields[1]

\* the struct of the parts c is registered
StructRead(c) ==
    /\ Finished
    /\ CommonContent = StructBlock(c)
    /\ HasName(structs, "struct", "EOS_Info")

\* C12 as stated: a struct field whose doc comment contains the text
\* "Set this to X." has the recommended value X, wherever the text stands in
\* the comment, and a field whose comment lacks the phrase has none.
C12_ValueAfterPhrase ==
    \A c \in FieldComments :
       StructRead(c) =>
           /\ (c.phrase /\ c.rest # "")
                 => ApiVersionField(c.union).recommended_value = c.value.text
           /\ ~c.phrase => ApiVersionField(c.union).recommended_value = None

\* C12 amended: a struct field whose doc comment contains the text
\* ": Set this to " (a colon and a space before the phrase) has as recommended
\* value the text that follows its first occurrence, up to the first period (or
\* the end of the comment); a field whose comment lacks the phrase, or has it
\* without the colon and the space before it, has no recommended value.
C12_ValueAfterColonPhrase ==
    \A c \in FieldComments :
       StructRead(c) =>
           /\ ApiVersionField(c.union).name = "ApiVersion"
           /\ ApiVersionField(c.union).comment = CommentText(c)
           /\ ApiVersionField(c.union).recommended_value
                 = IF c.phrase /\ c.colon THEN c.value.upto ELSE None

\* C12 witness: the field of a union whose comment has the phrase after a
\* colon, in the middle of the comment, with a value that holds a period
C12_Witness ==
    /\ StructRead([lead |-> "First. API Version", phrase |-> TRUE, colon |-> TRUE,
                   value |-> [text |-> "1.5", upto |-> "1"],
                   rest |-> ". See the docs.", union |-> TRUE])
    /\ ApiVersionField(TRUE).recommended_value = "1"

\* the parameters of the registered function EOS_Free
FreeParams ==
    functions[CHOOSE k \in 1..Len(functions) : functions[k].methodname_flat = "EOS_Free"].params

\* the declaration of EOS_Free with the text params between its parentheses
\* is registered
FunctionRead(params) ==
    /\ Finished
    /\ CommonContent = FunctionBlock(params)
    /\ HasName(functions, "methodname_flat", "EOS_Free")

\* C13: a function declared with the parameter text void, or with none, has an
\* empty parameter list; any other parameter text gives one entry for each of
\* its comma-separated segments, in their order, whose name is the last
\* space-separated token of the segment and whose type is the text before it;
\* "const char* Name, int32_t Count" gives the types const char* and int32_t
\* with the names Name and Count.
C13_ParametersPerSegment ==
    /\ \A p \in {"void", ""} : FunctionRead(p) => FreeParams = <<>>
    /\ \A s \in SeqsUpTo(ParamSegments, MaxParams) :
          (Len(s) > 0 /\ FunctionRead(CommaList(s))) =>
              FreeParams = [k \in 1..Len(s) |-> [name |-> s[k].name, type |-> s[k].type]]

\* C13 witness: the function with the parameters const char* Name, int32_t Count
\* is registered with its two parameters
C13_Witness ==
    /\ FunctionRead("const char* Name, int32_t Count")
    /\ FreeParams = <<[name |-> "Name", type |-> "const char*"],
                      [name |-> "Count", type |-> "int32_t"]>>

\* the iteration at the cursor dispatches the first line of a #define
\* directive of the input whose name is on the ignore list
IgnoredDefineAt ==
    /\ AtLine
    /\ HasDispatched
    /\ \E n \in DefineNames \cap DEFINES_IGNORE_LIST : \E t \in DefineTails :
          Dispatched.line = Head(DefineBlock(n, t))

\* C14: a #define whose name is on the ignore list is dropped without an
\* error: the iteration that reads it leaves the six mappings of the registry
\* as they were, also when the name was read before, and the defines mapping
\* never holds a name of the ignore list.
C14_IgnoredDefineDropped ==
    /\ [][IgnoredDefineAt => (pc' = "line" /\ Registry' = Registry)]_vars
    /\ [](\A k \in 1..Len(defines) : defines[k].name \notin DEFINES_IGNORE_LIST)

\* C14 witness: a file that defines the ignored macro EOS_RESULT_VALUE twice,
\* the second time over two lines, is read to its end and no #define is
\* registered for it
C14_Witness ==
    /\ Finished
    /\ CommonContent = DefineBlock("EOS_RESULT_VALUE", <<"(Name, Value) Name = Value,\n">>)
                          \o DefineBlock("EOS_RESULT_VALUE", <<" \\\n", "  1\n">>)
    /\ \A k \in 1..Len(defines) : defines[k].source # "eos_common.h"

\* the items a sequence of lines of InitComments is made of
RECURSIVE ItemsOf(_)
ItemsOf(lines) ==
    IF Len(lines) = 0 THEN <<>>
    ELSE LET item == CHOOSE x \in FileItems : IsPrefix(x.lines, lines)
         IN  <<item>> \o ItemsOf(Slice(lines, Len(item.lines) + 1, Len(lines)))

\* the records eos_common.h has left in the mappings of functions and defines:
\* their names and the comments they were parsed with
CommonRecords ==
    {[name |-> functions[k].methodname_flat, comment |-> functions[k].comment] :
        k \in {n \in 1..Len(functions) : functions[n].source = "eos_common.h"}}
    \cup {[name |-> defines[k].name, comment |-> defines[k].comment] :
             k \in {n \in 1..Len(defines) : defines[n].source = "eos_common.h"}}

\* the doc comment of the item at k of items: the text of the block comment
\* right before it, empty when the item before it is no block comment
DocBefore(items, k) ==
    IF k > 1 /\ items[k - 1].kind = "doc" THEN items[k - 1].text ELSE ""

\* the first places of the declarations of items
FirstDecls(items) ==
    {k \in 1..Len(items) :
        items[k].kind = "decl" /\ \A j \in 1..(k - 1) : items[j] # items[k]}

\* the records the declarations of items are to leave
DocRecords(items) ==
    {[name |-> items[k].text, comment |-> DocBefore(items, k)] : k \in FirstDecls(items)}

\* C17: the doc comment a declaration is parsed with is the text of the last
\* block comment of the run of block comments that ends on the line before the
\* declaration, and is empty when the line before the declaration is not the
\* end of a block comment: a comment goes to one declaration at most, and never
\* to a declaration behind a line that is no comment.
C17_CommentOfLastBlock ==
    /\ CommonRecords \subseteq DocRecords(ItemsOf(CommonContent))
    /\ Finished => CommonRecords = DocRecords(ItemsOf(CommonContent))

\* C17 witness: two block comments and a declaration are read, and the
\* declaration has the text of the second comment
C17_Witness ==
    /\ Finished
    /\ CommonContent = <<"/** First. */\n", "/**\n", " * Second\n", " * comment.\n", " */\n",
                         "EOS_DECLARE_FUNC(void) EOS_Free(int32_t Handle);\n">>
    /\ CommonRecords = {[name |-> "EOS_Free", comment |-> "Second\ncomment."]}

\* C18: in an enum block a literal that is no plain integer (0x10) is kept as
\* text, and an entry without a literal right after it triggers no integer
\* coercion of that text: the run is not ended by the ValueError of a failed
\* coercion.
C18_NoCoercionOfOpaqueText ==
    (\E n \in 2..Len(EntryTexts) :
        /\ ~HasLiteral(EntryTexts[n])
        /\ EntryTexts[n - 1] = "  EOS_EK_D = 0x10,\n")
    => ~(pc = "fatal" /\ err = "ValueError")

\* the lines of eos_ui_keys.h in the directory
KeysContent == ContentOf(files_index, "eos_ui_keys.h")

\* the macro and the value of the key invocation on line k of eos_ui_keys.h
FormAt(k) == CHOOSE f \in KeyForms : KeyLine(f, k) = KeysContent[k]

\* the entries of the enum of the key combinations
KeyValues == enums[EnumIndex(enums, "EOS_UI_EKeyCombination")].values

AutoIndexMacros == {"EOS_UI_KEY_ENTRY", "EOS_UI_KEY_CONSTANT_LAST"}

\* the iteration at the cursor dispatches a line of eos_ui_keys.h
AtKey == AtLine /\ CurrentFile = "eos_ui_keys.h"

\* the entry of line k is the last entry of the enum, with this value
KeyAdded(k, value) ==
    /\ Len(KeyValues') = Len(KeyValues) + 1
    /\ KeyValues'[Len(KeyValues')].name = "EOS_UIK_" \o KeyName(k)
    /\ KeyValues'[Len(KeyValues')].value = value

\* what the dispatch of the key invocation form on line k does
KeyStep(form, k) ==
    IF form.value = None
    THEN IF form.macro \in AutoIndexMacros
         THEN /\ pc' = "line"
              /\ enum_last_index' = enum_last_index + 1
              /\ KeyAdded(k, StrOf(enum_last_index + 1))
         ELSE pc' = "fatal" /\ enums' = enums
    ELSE /\ pc' = "line"
         /\ KeyAdded(k, form.value)
         /\ enum_last_index' = IF form.macro = "EOS_UI_KEY_ENTRY_FIRST"
                               THEN IntOf(form.value) ELSE enum_last_index

\* the entries of the lines read so far resolve as the claim says
KeysResolved ==
    \A k \in 1..Len(KeyValues) :
       FormAt(k).value = None =>
           /\ k = 1 => KeyValues[k].value = "1"
           /\ (k > 1 /\ FormAt(k - 1).value = None)
                 => IntOf(KeyValues[k].value) = IntOf(KeyValues[k - 1].value) + 1
           /\ (k > 1 /\ FormAt(k - 1).macro = "EOS_UI_KEY_ENTRY_FIRST")
                 => KeyValues[k].value = StrOf(IntOf(FormAt(k - 1).value) + 1)

\* C19: in eos_ui_keys.h a key invocation without a value ends the run unless
\* its macro is EOS_UI_KEY_ENTRY or EOS_UI_KEY_CONSTANT_LAST, and then its
\* value is the counter of the file after adding one to it: entries without a
\* value that follow each other have consecutive values, and the first one
\* after EOS_UI_KEY_ENTRY_FIRST with the value v has the value v + 1; an
\* invocation with a value under any other macro leaves the counter as it is.
C19_KeyCounter ==
    /\ [][AtKey => KeyStep(FormAt(cursor + 1), cursor + 1)]_vars
    /\ [](pc = "line" /\ CurrentFile = "eos_ui_keys.h" => KeysResolved)

\* C19 witness: EOS_UI_KEY_ENTRY_FIRST with the value 8 and two entries
\* without a value are read, and the entries have the values 9 and 10
C19_Witness ==
    /\ Finished
    /\ KeysContent = <<"EOS_UI_KEY_ENTRY_FIRST(EOS_UIK_, Key1, 8)\n",
                       "EOS_UI_KEY_ENTRY(EOS_UIK_, Key2)\n",
                       "EOS_UI_KEY_CONSTANT_LAST(EOS_UIK_, Key3)\n">>
    /\ [k \in 1..3 |-> KeyValues[k].value] = <<"8", "9", "10">>
    /\ enum_last_index = 10

\* the iteration at the cursor dispatches an EOS_ENUM_START or EOS_ENUM_END
\* line that names one of the three bootstrap enums
BootstrapMarkerAt ==
    /\ AtLine
    /\ HasDispatched
    /\ \E m \in MarkerParts : m.enum # "EOS_EOther" /\ Dispatched.line = MarkerLine(m)

\* C20: a line that starts with EOS_ENUM_START or EOS_ENUM_END and names one of
\* the three bootstrap enums is not parsed as an enum block, although it starts
\* with EOS_ENUM too: its iteration goes on with the next line and leaves the
\* six mappings of the registry as they were.
C20_MarkerLineIgnored ==
    [][BootstrapMarkerAt =>
          (pc' = "line" /\ cursor' = cursor + 1 /\ Registry' = Registry)]_vars

\* C20 witness: a file with an entry of EOS_EResult between the two marker
\* lines of that enum is read to its end: the entry is registered and no enum
\* is added to the three bootstrap enums
C20_Witness ==
    /\ Finished
    /\ CommonContent = <<"EOS_ENUM_START(EOS_EResult)\n",
                         "EOS_RESULT_VALUE(EOS_Success, 0)\n",
                         "EOS_ENUM_END(EOS_EResult);\n">>
    /\ Len(enums) = 3
    /\ Len(enums[EnumIndex(enums, "EOS_EResult")].values) = 1

\* the members a sequence of lines of a struct block of InitStruct is made of
RECURSIVE MembersOf(_)
MembersOf(lines) ==
    IF Len(lines) = 0 THEN <<>>
    ELSE LET item == CHOOSE x \in StructMembers : IsPrefix(x.lines, lines)
         IN  <<item>> \o MembersOf(Slice(lines, Len(item.lines) + 1, Len(lines)))

\* the members of the struct block of eos_common.h
CommonMembers == MembersOf(Slice(CommonContent, 2, Len(CommonContent) - 1))

\* the fields of the registered struct EOS_Info
InfoFields ==
    structs[CHOOSE k \in 1..Len(structs) : structs[k].struct = "EOS_Info"].fields

\* the places of members that are of one of kinds
PlacesOf(members, kinds) == {k \in 1..Len(members) : members[k].kind \in kinds}

\* the greatest number of a set of numbers, 0 for the empty set
Greatest(places) == IF places = {} THEN 0 ELSE CHOOSE k \in places : \A j \in places : j <= k

\* the text of the last block comment between the last member before k that
\* is of one of kinds and the member at k, empty if there is none
DocSince(members, k, kinds) ==
    LET prev == Greatest({j \in PlacesOf(members, kinds) : j < k})
        docs == {j \in PlacesOf(members, {"doc"}) : prev < j /\ j < k}
    IN  IF docs = {} THEN "" ELSE members[Greatest(docs)].text

\* the places of the field declarations and unions of members, in their order
RECURSIVE EntryPlaces(_, _)
EntryPlaces(members, k) ==
    IF k > Len(members) THEN <<>>
    ELSE IF members[k].kind \in {"field", "union"}
    THEN <<k>> \o EntryPlaces(members, k + 1)
    ELSE EntryPlaces(members, k + 1)

\* the fields list has one entry for each field declaration and union of
\* members, in their order, and each scalar field has the comment read since
\* the last member before it that is of one of kinds
FieldsAsDeclared(members, kinds) ==
    LET places == EntryPlaces(members, 1)
    IN  /\ Len(InfoFields) = Len(places)
        /\ \A n \in 1..Len(places) :
              /\ InfoFields[n].name = members[places[n]].text
              /\ members[places[n]].kind = "field"
                    => InfoFields[n].comment = DocSince(members, places[n], kinds)

\* C21: the fields list of a struct record holds one entry for each scalar
\* field declaration and each nested union, in the order of their lines; each
\* scalar field has the block comment read since the field entry before it
\* (a scalar field or a union), and no comment if there is none: a comment is
\* attached once.
C21_FieldCommentSinceLastEntry ==
    HasName(structs, "struct", "EOS_Info") => FieldsAsDeclared(CommonMembers, {"field", "union"})

\* the run is in the loop over the lines of the nth file of the order
InFile(n) == pc = "line" /\ fileno = n

\* C23: every iteration of the loop over the lines of a file that does not end
\* the run leaves the cursor greater than it found it, and not less than the
\* cursor its sub-parser was given (the index after the dispatched line), so
\* no line is dispatched twice; and the loop over the lines of every file ends,
\* at the end of the file or with a fatal error.
C23_CursorAdvances ==
    /\ [][AtLine =>
             \/ pc' = "fatal"
             \/ /\ pc' = "line"
                /\ fileno' = fileno
                /\ cursor' > cursor
                /\ cursor' >= Dispatched.i]_vars
    /\ \A n \in 1..Len(BlockFiles) + 1 :
          InFile(n) ~> (pc = "fatal" \/ (InFile(n) /\ cursor >= Len(CurrentContent)))

\* C23 witness: absorb_directive was given the cursor 1 after the first line of
\* eos_common.h, which ends with a backslash, and has returned the cursor 2
\* after the line that continues it
C23_Witness ==
    /\ pc = "line"
    /\ CurrentFile = "eos_common.h"
    /\ CurrentContent = <<"#if defined(EOS_A) && \\\n", "#define EOS_MAX 64\n">>
    /\ cursor = 2
    /\ ~HasName(defines, "name", "EOS_MAX")

=============================================================================
